---- MODULE Spec2Model ----
(***************************************************************************)
(* Model of the clippy clipboard-history manager (bvdwalt/clippy).         *)
(*                                                                         *)
(* history.Manager (internal/history/history.go) keeps an in-memory item   *)
(* slice, a hash set and lastHash, and writes through to db.Client, an     *)
(* SQLite table clipboard_history(hash PRIMARY KEY, content, timestamp,    *)
(* count).  Every durable call may fail; a failed statement changes        *)
(* nothing in the table.  The earlier Manager of the same file keeps the   *)
(* items in memory only and saves them to history.json on exit.            *)
(***************************************************************************)
EXTENDS Integers, Sequences, FiniteSets, TLC

\* ------------------------------------------------------------------ bounds
\* Largest wall-clock reading handed out by time.Now().
MaxTime == 1
\* Largest copy count IncrementItemCount is driven to.
MaxCount == 1
\* Calls each call site starts when the two run at the same time.
MaxCalls == 2
\* Longest query, and longest free-standing text, handed to Search (characters).
MaxLen == 2
\* Longest item list handed to Search.
MaxItems == 3
\* Longest query typed into the search input.
MaxQuery == 1

\* Clipboard contents offered to AddItem; the empty string is a legal content.
Contents == {"", "a", "b"}

\* Indexes offered to DeleteItem / IncrementItemCount: every index in range,
\* one below the range and one past its end.
Indexes(mgr) == -1 .. Len(mgr.items)

\* --------------------------------------------------------------- variables
VARIABLES
    items,      \* Manager.items    : sequence of ClipboardHistory
    hashes,     \* Manager.hashes   : set of hash strings
    lastHash,   \* Manager.lastHash : hash of the item added / loaded last
    tbl,        \* rows of table clipboard_history
    now,        \* the wall clock read by time.Now()
    lastCall,   \* record of the most recent completed call
    loaded,     \* whether this session's Manager mirrors the storage it opened
    variant,    \* which Manager is built: "db" (SQLite) or "json" (history.json)
    file,       \* the file history.json of the JSON Manager
    observe,    \* what is recorded: "calls" (all), "restarts", "reads", "slices", ...
    order,      \* contents in the order of their first successful AddItem
    backing,    \* the array under Manager.items, up to its capacity
    held,       \* a slice a caller got from GetItems and still holds
    procs,      \* per call site: where it stands inside a Manager call
    search,     \* one call of FuzzyMatcher.Search: its arguments and its result
    ui          \* the ui.Model and the message its Update handled last

vars == <<items, hashes, lastHash, tbl, now, lastCall, loaded, variant, file, observe,
          order, backing, held, procs, search, ui>>

\* ------------------------------------------------------------ pure helpers
\* Zero value of ClipboardHistory.
ZeroItem == [Item |-> "", Hash |-> "", TimeStamp |-> 0, Count |-> 0]

\* fmt.Sprintf("%x", sha256.Sum256(content)): a non-empty string, distinct
\* for distinct contents.
Hash(content) == "sha256:" \o content

\* newClipboardItem under a clock reading t.
newClipboardItem(content, t) ==
    [Item |-> content, Hash |-> Hash(content), TimeStamp |-> t, Count |-> 0]

\* The Manager as one value.
Mgr == [items |-> items, hashes |-> hashes, lastHash |-> lastHash]

\* NewManagerWithPath: empty slice, empty map, zero lastHash.
NewMgr == [items |-> <<>>, hashes |-> {}, lastHash |-> ""]

containsHash(mgr, s) == s \in mgr.hashes \/ mgr.lastHash = s

Count(mgr) == Len(mgr.items)

GetItems(mgr) == mgr.items

\* Mutant of Manager_GetItem: index 0 is taken to be out of range.
Manager_GetItem_SkipsFirst(mgr, index) ==
    IF index > 0 /\ index < Len(mgr.items)
    THEN [item |-> mgr.items[index + 1], found |-> TRUE]
    ELSE [item |-> ZeroItem, found |-> FALSE]

\* GetItem: the item at a 0-based index and true, or the zero item and false.
Manager_GetItem(mgr, index) ==
    IF index >= 0 /\ index < Len(mgr.items)
    THEN [item |-> mgr.items[index + 1], found |-> TRUE]
    ELSE [item |-> ZeroItem, found |-> FALSE]

\* append(s[:index], s[index+1:]...) for a 0-based in-range index.
RemoveAt(s, index) == SubSeq(s, 1, index) \o SubSeq(s, index + 2, Len(s))

SeqToSet(s) == {s[i] : i \in 1 .. Len(s)}

\* ------------------------------------------------------------ Go slices
\* Manager.items is a slice header over an array; GetItems returns that
\* header, so the caller's slice is over the same array until the Manager
\* moves to a new one.

\* Capacities append may give the new array when the old one is full.
GrowCaps(n) == {n + 1, IF n = 0 THEN 1 ELSE 2 * n}

ZeroFill(k) == [i \in 1 .. k |-> ZeroItem]

\* m.items = append(m.items, item) on an array arr holding n items: in place
\* when there is room, else into a new array of capacity cap.
Backing_Append(arr, n, item, cap) ==
    IF n < Len(arr) THEN [arr EXCEPT ![n + 1] = item]
    ELSE SubSeq(arr, 1, n) \o <<item>> \o ZeroFill(cap - n - 1)

\* m.items = append(m.items[:index], m.items[index+1:]...): the tail is moved
\* down in place; the slot of the former last item keeps its value.
Backing_Delete(arr, n, index) ==
    SubSeq(arr, 1, index) \o SubSeq(arr, index + 2, n) \o SubSeq(arr, n, Len(arr))

\* item := &m.items[index]; item.Count++
Backing_Increment(arr, index) == [arr EXCEPT ![index + 1].Count = @ + 1]

\* Slots of the array that no slice can read (past the Manager's length n and
\* past the caller's length keep) are overwritten before they are read
\* again; they are kept as zero items.
Unread(arr, n, keep) ==
    [i \in 1 .. Len(arr) |-> IF i <= n \/ i <= keep THEN arr[i] ELSE ZeroItem]

\* The caller's slice: taken is what it read when GetItems returned it, cur
\* what it reads now.  It is followed (shared) while it is over the array
\* the Manager uses and until it first reads differently.
\* No slice handed out yet.
NoHeld == [has |-> FALSE, shared |-> FALSE, taken |-> <<>>, cur |-> <<>>]

\* The Manager has moved to a new array before the caller's slice changed:
\* nothing the Manager does reaches that slice any more.
Released == [has |-> TRUE, shared |-> FALSE, taken |-> <<>>, cur |-> <<>>]

\* ----------------------------------------------------------- db.Client
\* Each operation takes the table and the outcome of the statement (ok) and
\* yields the new table and whether an error is returned.

\* Mutant of Client_Insert: INSERT OR REPLACE, a row of the same hash is
\* overwritten.
Client_Insert_OrReplace(t, entry, ok) ==
    IF ok
    THEN [tbl |-> {r \in t : r.hash # entry.Hash}
                      \cup {[hash |-> entry.Hash, content |-> entry.Content,
                             timestamp |-> entry.Timestamp, count |-> entry.Count]},
          err |-> FALSE]
    ELSE [tbl |-> t, err |-> TRUE]

\* INSERT INTO clipboard_history (hash, content, timestamp, count): fails on
\* an existing primary key.
Client_Insert(t, entry, ok) ==
    IF ok /\ ~(\E r \in t : r.hash = entry.Hash)
    THEN [tbl |-> t \cup {[hash |-> entry.Hash, content |-> entry.Content,
                           timestamp |-> entry.Timestamp, count |-> entry.Count]},
          err |-> FALSE]
    ELSE [tbl |-> t, err |-> TRUE]

\* DELETE FROM clipboard_history WHERE hash = ?
Client_Delete(t, hash, ok) ==
    IF ok THEN [tbl |-> {r \in t : r.hash # hash}, err |-> FALSE]
    ELSE [tbl |-> t, err |-> TRUE]

\* UPDATE clipboard_history SET count = count + 1 WHERE hash = ?
Client_IncrementCount(t, hash, ok) ==
    IF ok
    THEN [tbl |-> {IF r.hash = hash THEN [r EXCEPT !.count = r.count + 1] ELSE r : r \in t},
          err |-> FALSE]
    ELSE [tbl |-> t, err |-> TRUE]

\* Mutant of ScanRow: the count column is not read (SELECT content, hash,
\* timestamp), so every entry carries the zero Count.
ScanRow_NoCount(r) ==
    [Content |-> r.content, Hash |-> r.hash, Timestamp |-> r.timestamp, Count |-> 0]

\* rows.Scan(&entry.Content, &entry.Hash, &entry.Timestamp, &entry.Count)
ScanRow(r) ==
    [Content |-> r.content, Hash |-> r.hash, Timestamp |-> r.timestamp, Count |-> r.count]

\* Mutant of EntryOrder: ORDER BY timestamp ASC.
EntryOrder_TimestampAsc(a, b) == a.Timestamp <= b.Timestamp

\* ORDER BY count DESC, timestamp DESC: entry a may come before entry b.
EntryOrder(a, b) ==
    \/ a.Count > b.Count
    \/ a.Count = b.Count /\ a.Timestamp >= b.Timestamp

\* SELECT ... ORDER BY count DESC, timestamp DESC: every row once, in an
\* order the ORDER BY allows (rows that tie on both keys come in any order).
Client_LoadAll(t) ==
    LET n == Cardinality(t)
        E == {ScanRow(r) : r \in t}
    IN  {s \in [1 .. n -> E] :
            /\ \A i, j \in 1 .. n : i # j => s[i] # s[j]
            /\ \A i, j \in 1 .. n : i < j => EntryOrder(s[i], s[j])}

\* ------------------------------------------------------ Manager operations
\* Each yields the Manager and table after the call, the value returned, the
\* number of durable statements issued and whether one returned an error.

\* Mutant of Manager_AddItem: the in-memory index is updated before the
\* insert and is not rolled back when the insert fails.
Manager_AddItem_AppendFirst(mgr, t, content, clk, ok) ==
    LET item == newClipboardItem(content, clk) IN
    IF ~containsHash(mgr, item.Hash)
    THEN LET entry == [Content |-> item.Item, Hash |-> item.Hash,
                       Timestamp |-> item.TimeStamp, Count |-> 0]
             ins == Client_Insert(t, entry, ok)
         IN  [mgr |-> [items |-> Append(mgr.items, item),
                       hashes |-> mgr.hashes \cup {item.Hash},
                       lastHash |-> item.Hash],
              tbl |-> ins.tbl, ret |-> ~ins.err, dbCalls |-> 1, err |-> ins.err]
    ELSE [mgr |-> mgr, tbl |-> t, ret |-> FALSE, dbCalls |-> 0, err |-> FALSE]

\* Mutant of Manager_AddItem: adding content that is already held stamps the
\* held item with the time of the new capture.
Manager_AddItem_RefreshesTimestamp(mgr, t, content, clk, ok) ==
    LET item == newClipboardItem(content, clk) IN
    IF ~containsHash(mgr, item.Hash)
    THEN LET entry == [Content |-> item.Item, Hash |-> item.Hash,
                       Timestamp |-> item.TimeStamp, Count |-> 0]
             ins == Client_Insert(t, entry, ok)
         IN  IF ins.err
             THEN [mgr |-> mgr, tbl |-> ins.tbl, ret |-> FALSE, dbCalls |-> 1, err |-> TRUE]
             ELSE [mgr |-> [items |-> Append(mgr.items, item),
                            hashes |-> mgr.hashes \cup {item.Hash},
                            lastHash |-> item.Hash],
                   tbl |-> ins.tbl, ret |-> TRUE, dbCalls |-> 1, err |-> FALSE]
    ELSE [mgr |-> [mgr EXCEPT !.items =
                      [i \in 1 .. Len(mgr.items) |->
                          IF mgr.items[i].Hash = item.Hash
                          THEN [mgr.items[i] EXCEPT !.TimeStamp = clk]
                          ELSE mgr.items[i]]],
          tbl |-> t, ret |-> FALSE, dbCalls |-> 0, err |-> FALSE]

\* Mutant of Manager_AddItem: the new item is put in front of the slice.
Manager_AddItem_Prepends(mgr, t, content, clk, ok) ==
    LET item == newClipboardItem(content, clk) IN
    IF ~containsHash(mgr, item.Hash)
    THEN LET entry == [Content |-> item.Item, Hash |-> item.Hash,
                       Timestamp |-> item.TimeStamp, Count |-> 0]
             ins == Client_Insert(t, entry, ok)
         IN  IF ins.err
             THEN [mgr |-> mgr, tbl |-> ins.tbl, ret |-> FALSE, dbCalls |-> 1, err |-> TRUE]
             ELSE [mgr |-> [items |-> <<item>> \o mgr.items,
                            hashes |-> mgr.hashes \cup {item.Hash},
                            lastHash |-> item.Hash],
                   tbl |-> ins.tbl, ret |-> TRUE, dbCalls |-> 1, err |-> FALSE]
    ELSE [mgr |-> mgr, tbl |-> t, ret |-> FALSE, dbCalls |-> 0, err |-> FALSE]

Manager_AddItem(mgr, t, content, clk, ok) ==
    LET item == newClipboardItem(content, clk) IN
    IF ~containsHash(mgr, item.Hash)
    THEN LET entry == [Content |-> item.Item, Hash |-> item.Hash,
                       Timestamp |-> item.TimeStamp, Count |-> 0]
             ins == Client_Insert(t, entry, ok)
         IN  IF ins.err
             THEN [mgr |-> mgr, tbl |-> ins.tbl, ret |-> FALSE, dbCalls |-> 1, err |-> TRUE]
             ELSE [mgr |-> [items |-> Append(mgr.items, item),
                            hashes |-> mgr.hashes \cup {item.Hash},
                            lastHash |-> item.Hash],
                   tbl |-> ins.tbl, ret |-> TRUE, dbCalls |-> 1, err |-> FALSE]
    ELSE [mgr |-> mgr, tbl |-> t, ret |-> FALSE, dbCalls |-> 0, err |-> FALSE]

\* Mutant of Manager_DeleteItem: the hash and the row are removed but the
\* item stays in the slice.
Manager_DeleteItem_KeepsSlice(mgr, t, index, ok) ==
    IF index >= 0 /\ index < Len(mgr.items)
    THEN LET item == mgr.items[index + 1]
             del == Client_Delete(t, item.Hash, ok)
         IN  IF del.err
             THEN [mgr |-> mgr, tbl |-> del.tbl, ret |-> FALSE, dbCalls |-> 1, err |-> TRUE]
             ELSE [mgr |-> [items |-> mgr.items,
                            hashes |-> mgr.hashes \ {item.Hash},
                            lastHash |-> mgr.lastHash],
                   tbl |-> del.tbl, ret |-> TRUE, dbCalls |-> 1, err |-> FALSE]
    ELSE [mgr |-> mgr, tbl |-> t, ret |-> FALSE, dbCalls |-> 0, err |-> FALSE]

\* Mutant of Manager_DeleteItem: an index past the end is taken to mean the
\* last item.
Manager_DeleteItem_ClampsIndex(mgr, t, index, ok) ==
    LET at == IF index >= Len(mgr.items) THEN Len(mgr.items) - 1 ELSE index IN
    IF at >= 0 /\ at < Len(mgr.items)
    THEN LET item == mgr.items[at + 1]
             del == Client_Delete(t, item.Hash, ok)
         IN  IF del.err
             THEN [mgr |-> mgr, tbl |-> del.tbl, ret |-> FALSE, dbCalls |-> 1, err |-> TRUE]
             ELSE [mgr |-> [items |-> RemoveAt(mgr.items, at),
                            hashes |-> mgr.hashes \ {item.Hash},
                            lastHash |-> mgr.lastHash],
                   tbl |-> del.tbl, ret |-> TRUE, dbCalls |-> 1, err |-> FALSE]
    ELSE [mgr |-> mgr, tbl |-> t, ret |-> FALSE, dbCalls |-> 0, err |-> FALSE]

\* Mutant of Manager_DeleteItem: the error of the durable delete is ignored.
Manager_DeleteItem_IgnoresErr(mgr, t, index, ok) ==
    IF index >= 0 /\ index < Len(mgr.items)
    THEN LET item == mgr.items[index + 1]
             del == Client_Delete(t, item.Hash, ok)
         IN  [mgr |-> [items |-> RemoveAt(mgr.items, index),
                       hashes |-> mgr.hashes \ {item.Hash},
                       lastHash |-> mgr.lastHash],
              tbl |-> del.tbl, ret |-> ~del.err, dbCalls |-> 1, err |-> del.err]
    ELSE [mgr |-> mgr, tbl |-> t, ret |-> FALSE, dbCalls |-> 0, err |-> FALSE]

\* Mutant of Manager_DeleteItem: the row and the hash of the item at index
\* are removed, but the slice loses its last item.
Manager_DeleteItem_DropsLast(mgr, t, index, ok) ==
    IF index >= 0 /\ index < Len(mgr.items)
    THEN LET item == mgr.items[index + 1]
             del == Client_Delete(t, item.Hash, ok)
         IN  IF del.err
             THEN [mgr |-> mgr, tbl |-> del.tbl, ret |-> FALSE, dbCalls |-> 1, err |-> TRUE]
             ELSE [mgr |-> [items |-> SubSeq(mgr.items, 1, Len(mgr.items) - 1),
                            hashes |-> mgr.hashes \ {item.Hash},
                            lastHash |-> mgr.lastHash],
                   tbl |-> del.tbl, ret |-> TRUE, dbCalls |-> 1, err |-> FALSE]
    ELSE [mgr |-> mgr, tbl |-> t, ret |-> FALSE, dbCalls |-> 0, err |-> FALSE]

Manager_DeleteItem(mgr, t, index, ok) ==
    IF index >= 0 /\ index < Len(mgr.items)
    THEN LET item == mgr.items[index + 1]
             del == Client_Delete(t, item.Hash, ok)
         IN  IF del.err
             THEN [mgr |-> mgr, tbl |-> del.tbl, ret |-> FALSE, dbCalls |-> 1, err |-> TRUE]
             ELSE [mgr |-> [items |-> RemoveAt(mgr.items, index),
                            hashes |-> mgr.hashes \ {item.Hash},
                            lastHash |-> mgr.lastHash],
                   tbl |-> del.tbl, ret |-> TRUE, dbCalls |-> 1, err |-> FALSE]
    ELSE [mgr |-> mgr, tbl |-> t, ret |-> FALSE, dbCalls |-> 0, err |-> FALSE]

\* Mutant of Manager_IncrementItemCount: the in-memory count is raised
\* before the durable increment and stays raised when that fails.
Manager_IncrementItemCount_CountsFirst(mgr, t, index, ok) ==
    IF index >= 0 /\ index < Len(mgr.items)
    THEN LET item == mgr.items[index + 1]
             inc == Client_IncrementCount(t, item.Hash, ok)
         IN  [mgr |-> [mgr EXCEPT !.items[index + 1].Count = item.Count + 1],
              tbl |-> inc.tbl, ret |-> ~inc.err, dbCalls |-> 1, err |-> inc.err]
    ELSE [mgr |-> mgr, tbl |-> t, ret |-> FALSE, dbCalls |-> 0, err |-> FALSE]

\* Mutant of Manager_IncrementItemCount: the in-memory count is raised by 2.
Manager_IncrementItemCount_AddsTwo(mgr, t, index, ok) ==
    IF index >= 0 /\ index < Len(mgr.items)
    THEN LET item == mgr.items[index + 1]
             inc == Client_IncrementCount(t, item.Hash, ok)
         IN  IF inc.err
             THEN [mgr |-> mgr, tbl |-> inc.tbl, ret |-> FALSE, dbCalls |-> 1, err |-> TRUE]
             ELSE [mgr |-> [mgr EXCEPT !.items[index + 1].Count = item.Count + 2],
                   tbl |-> inc.tbl, ret |-> TRUE, dbCalls |-> 1, err |-> FALSE]
    ELSE [mgr |-> mgr, tbl |-> t, ret |-> FALSE, dbCalls |-> 0, err |-> FALSE]

\* Mutant of Manager_IncrementItemCount: an index out of range returns nil.
Manager_IncrementItemCount_NilOutOfRange(mgr, t, index, ok) ==
    IF index >= 0 /\ index < Len(mgr.items)
    THEN LET item == mgr.items[index + 1]
             inc == Client_IncrementCount(t, item.Hash, ok)
         IN  IF inc.err
             THEN [mgr |-> mgr, tbl |-> inc.tbl, ret |-> FALSE, dbCalls |-> 1, err |-> TRUE]
             ELSE [mgr |-> [mgr EXCEPT !.items[index + 1].Count = item.Count + 1],
                   tbl |-> inc.tbl, ret |-> TRUE, dbCalls |-> 1, err |-> FALSE]
    ELSE [mgr |-> mgr, tbl |-> t, ret |-> TRUE, dbCalls |-> 0, err |-> FALSE]

\* ret is TRUE when the call returns nil, FALSE when it returns an error.
Manager_IncrementItemCount(mgr, t, index, ok) ==
    IF index >= 0 /\ index < Len(mgr.items)
    THEN LET item == mgr.items[index + 1]
             inc == Client_IncrementCount(t, item.Hash, ok)
         IN  IF inc.err
             THEN [mgr |-> mgr, tbl |-> inc.tbl, ret |-> FALSE, dbCalls |-> 1, err |-> TRUE]
             ELSE [mgr |-> [mgr EXCEPT !.items[index + 1].Count = item.Count + 1],
                   tbl |-> inc.tbl, ret |-> TRUE, dbCalls |-> 1, err |-> FALSE]
    ELSE [mgr |-> mgr, tbl |-> t, ret |-> FALSE, dbCalls |-> 0, err |-> FALSE]

\* The item LoadFromDB builds from one entry.
EntryToItem(e) ==
    [Item |-> e.Content, Hash |-> e.Hash, TimeStamp |-> e.Timestamp, Count |-> e.Count]

\* Mutant of Manager_LoadFromDB: the slice and the map are not reset before
\* the loaded entries are appended.
Manager_LoadFromDB_NoReset(mgr, t, entries, ok) ==
    IF ~ok
    THEN [mgr |-> mgr, tbl |-> t, ret |-> FALSE, dbCalls |-> 1, err |-> TRUE]
    ELSE LET n == Len(entries) IN
         [mgr |-> [items |-> mgr.items \o [i \in 1 .. n |-> EntryToItem(entries[i])],
                   hashes |-> mgr.hashes \cup {entries[i].Hash : i \in 1 .. n},
                   lastHash |-> IF n = 0 THEN mgr.lastHash ELSE entries[n].Hash],
          tbl |-> t, ret |-> TRUE, dbCalls |-> 1, err |-> FALSE]

\* Mutant of Manager_LoadFromDB: the slice and the map are reset before
\* LoadAll is called, so a failed load leaves them empty.
Manager_LoadFromDB_ResetsFirst(mgr, t, entries, ok) ==
    IF ~ok
    THEN [mgr |-> [items |-> <<>>, hashes |-> {}, lastHash |-> mgr.lastHash],
          tbl |-> t, ret |-> FALSE, dbCalls |-> 1, err |-> TRUE]
    ELSE LET n == Len(entries) IN
         [mgr |-> [items |-> [i \in 1 .. n |-> EntryToItem(entries[i])],
                   hashes |-> {entries[i].Hash : i \in 1 .. n},
                   lastHash |-> IF n = 0 THEN mgr.lastHash ELSE entries[n].Hash],
          tbl |-> t, ret |-> TRUE, dbCalls |-> 1, err |-> FALSE]

\* entries is the slice LoadAll returned; ok is whether LoadAll succeeded.
Manager_LoadFromDB(mgr, t, entries, ok) ==
    IF ~ok
    THEN [mgr |-> mgr, tbl |-> t, ret |-> FALSE, dbCalls |-> 1, err |-> TRUE]
    ELSE LET n == Len(entries) IN
         [mgr |-> [items |-> [i \in 1 .. n |-> EntryToItem(entries[i])],
                   hashes |-> {entries[i].Hash : i \in 1 .. n},
                   lastHash |-> IF n = 0 THEN mgr.lastHash ELSE entries[n].Hash],
          tbl |-> t, ret |-> TRUE, dbCalls |-> 1, err |-> FALSE]

\* ------------------------------------------- the JSON Manager (history.json)
\* The file: absent, unreadable as JSON, or a JSON array of objects.
NoFile == [kind |-> "absent", doc |-> <<>>]

BadFile == [kind |-> "corrupt", doc |-> <<>>]

\* json.Encoder.Encode(m.items): one object per item, keyed by the json tags.
Encode(s) ==
    [i \in 1 .. Len(s) |->
        [item |-> s[i].Item, hash |-> s[i].Hash, timeStamp |-> s[i].TimeStamp,
         count |-> s[i].Count]]

\* json.Decoder.Decode(&items)
Decode(doc) ==
    [i \in 1 .. Len(doc) |->
        [Item |-> doc[i].item, Hash |-> doc[i].hash, TimeStamp |-> doc[i].timeStamp,
         Count |-> doc[i].count]]

JSONManager_AddItem(mgr, content, clk) ==
    LET item == newClipboardItem(content, clk) IN
    IF item.Hash \notin mgr.hashes
    THEN [mgr |-> [items |-> Append(mgr.items, item),
                   hashes |-> mgr.hashes \cup {item.Hash},
                   lastHash |-> mgr.lastHash],
          ret |-> TRUE]
    ELSE [mgr |-> mgr, ret |-> FALSE]

\* outcome: "ok", "create" (os.Create fails, the file is left alone) or
\* "encode" (the file was created, the write of the JSON fails).
\* ret is TRUE when the call returns nil.
JSONManager_SaveToFile(mgr, f, outcome) ==
    CASE outcome = "create" -> [file |-> f, ret |-> FALSE]
      [] outcome = "encode" -> [file |-> BadFile, ret |-> FALSE]
      [] OTHER -> [file |-> [kind |-> "json", doc |-> Encode(mgr.items)], ret |-> TRUE]

\* openOk: whether os.Open succeeds on an existing file.  opened says
\* whether the file was read at all; ret is TRUE when the call returns nil.
JSONManager_LoadFromFile(mgr, f, openOk) ==
    IF f.kind = "absent" \/ ~openOk
    THEN [mgr |-> mgr, ret |-> TRUE, opened |-> FALSE]
    ELSE IF f.kind = "corrupt"
         THEN [mgr |-> mgr, ret |-> FALSE, opened |-> TRUE]
         ELSE LET loadedItems == Decode(f.doc) IN
              [mgr |-> [items |-> loadedItems,
                        hashes |-> {loadedItems[i].Hash : i \in 1 .. Len(loadedItems)},
                        lastHash |-> mgr.lastHash],
               ret |-> TRUE, opened |-> TRUE]

\* ------------------------------------------------- search.FuzzyMatcher
\* A Go string is a sequence of bytes holding UTF-8.  Here a text is a
\* sequence of characters of Alphabet, each standing for its UTF-8 bytes:
\* the letter a in both cases, the word-boundary character '-', and three
\* two-byte characters that share bytes, written by name: U+00E9 (C3 A9),
\* U+00E3 (C3 A3) and U+00A9 (C2 A9).
Alphabet == {"a", "A", "-", "e-acute", "a-tilde", "copyright"}

\* The UTF-8 encoding of a character.
UTF8(c) ==
    CASE c = "a" -> <<97>>
      [] c = "A" -> <<65>>
      [] c = "-" -> <<45>>
      [] c = "e-acute" -> <<195, 169>>
      [] c = "a-tilde" -> <<195, 163>>
      [] c = "copyright" -> <<194, 169>>
      [] c = "/" -> <<47>>
      [] c = "c" -> <<99>>
      [] c = "d" -> <<100>>
      [] c = "r" -> <<114>>
      [] c = " " -> <<32>>
      [] c = "_" -> <<95>>
      [] c = "." -> <<46>>
      [] c = "\\" -> <<92>>

\* The bytes of a text.
RECURSIVE Bytes(_)
Bytes(text) == IF text = <<>> THEN <<>> ELSE UTF8(Head(text)) \o Bytes(Tail(text))

\* strings.ToLower
ToLower(text) == [i \in 1 .. Len(text) |-> IF text[i] = "A" THEN "a" ELSE text[i]]

\* Mutant of isWordBoundary: the backslash is not a boundary.
isWordBoundary_NoBackslash(c) == c \in {32, 45, 95, 46, 47}

isWordBoundary(c) == c \in {32, 45, 95, 46, 47, 92}

isLower(r) == r >= 97 /\ r <= 122

isUpper(r) == r >= 65 /\ r <= 90

\* Mutant of ScanFor: the scan for a query byte starts over at the
\* beginning of the text.
ScanFor_FromStart(text, queryChar, textIdx) ==
    LET RECURSIVE From(_)
        From(k) == IF k >= Len(text) THEN -1
                   ELSE IF text[k + 1] = queryChar THEN k
                   ELSE From(k + 1)
    IN  From(0)

\* The inner loop of fuzzyMatch: the first index >= textIdx (0-based) at
\* which text holds queryChar, or -1 when the text ends first.
ScanFor(text, queryChar, textIdx) ==
    LET RECURSIVE From(_)
        From(k) == IF k >= Len(text) THEN -1
                   ELSE IF text[k + 1] = queryChar THEN k
                   ELSE From(k + 1)
    IN  From(textIdx)

\* The outer loop of fuzzyMatch and what follows it, over byte sequences,
\* with the loop's variables as arguments.
RECURSIVE MatchLoop(_, _, _, _, _, _, _)
MatchLoop(text, query, score, textIdx, queryIdx, lastMatchIdx, consecutiveMatches) ==
    IF queryIdx < Len(query) /\ textIdx < Len(text)
    THEN LET at == ScanFor(text, query[queryIdx + 1], textIdx) IN
         IF at = -1 THEN 0
         ELSE LET run == IF at = lastMatchIdx + 1 THEN consecutiveMatches + 1 ELSE 0
                  positionScore ==
                      (Len(text) - at)
                      + (IF at = lastMatchIdx + 1 THEN run * 10 ELSE 0)
                      + (IF at = 0 \/ isWordBoundary(text[at]) THEN 15 ELSE 0)
                      + (IF at > 0 /\ isLower(text[at]) /\ isUpper(text[at + 1])
                         THEN 10 ELSE 0)
              IN  MatchLoop(text, query, score + positionScore, at + 1, queryIdx + 1,
                            at, run)
    ELSE IF queryIdx = Len(query)
         THEN score + (IF Len(text) < 50 THEN (50 - Len(text)) * 2 ELSE 0)
         ELSE 0

fuzzyMatch(text, query) ==
    IF Len(query) = 0 THEN 1
    ELSE IF Len(text) = 0 THEN 0
    ELSE MatchLoop(text, query, 0, 0, 0, -1, 0)

\* Mutant of sortByScore: the matches are left in the order found.
sortByScore_Unsorted(matches) == matches

\* sortByScore: for i, for j > i, swap when matches[j] scores higher.
sortByScore(matches) ==
    LET n == Len(matches)
        Swap(m, i, j) == [m EXCEPT ![i] = m[j], ![j] = m[i]]
        RECURSIVE Inner(_, _, _)
        Inner(m, i, j) ==
            IF j > n THEN m
            ELSE Inner(IF m[j].Score > m[i].Score THEN Swap(m, i, j) ELSE m, i, j + 1)
        RECURSIVE Outer(_, _)
        Outer(m, i) == IF i >= n THEN m ELSE Outer(Inner(m, i, i + 1), i + 1)
    IN  Outer(matches, 1)

\* A slice result: nil, or a slice (possibly of length 0).
NilSlice == [nil |-> TRUE, items |-> <<>>]

\* Mutant of ItemScore: the query is compared as typed.
ItemScore_QueryAsTyped(item, query) == fuzzyMatch(Bytes(ToLower(item.Item)), Bytes(query))

\* The score Search gives an item for a query.
ItemScore(item, query) == fuzzyMatch(Bytes(ToLower(item.Item)), Bytes(ToLower(query)))

\* The loop of Search over the items: the matches in input order.
RECURSIVE Matches(_, _)
Matches(list, query) ==
    IF list = <<>> THEN <<>>
    ELSE LET score == ItemScore(Head(list), query) IN
         (IF score > 0 THEN <<[Item |-> Head(list), Score |-> score]>> ELSE <<>>)
             \o Matches(Tail(list), query)

\* Mutant of Search: the result is nil when nothing matched.
Search_NilWhenNoMatch(list, query) ==
    IF query = <<>> THEN NilSlice
    ELSE LET matches == sortByScore(Matches(list, query)) IN
         IF matches = <<>> THEN NilSlice
         ELSE [nil |-> FALSE, items |-> [i \in 1 .. Len(matches) |-> matches[i].Item]]

Search(list, query) ==
    IF query = <<>> THEN NilSlice
    ELSE LET matches == sortByScore(Matches(list, query)) IN
         [nil |-> FALSE, items |-> [i \in 1 .. Len(matches) |-> matches[i].Item]]

\* The texts of at most n characters.
Texts(n) == UNION {[1 .. k -> Alphabet] : k \in 0 .. n}

\* Contents of the listed items: empty, a letter in either case, the letter
\* after a word boundary, and two two-byte characters.
Fixtures == {<<>>, <<"a">>, <<"A">>, <<"-", "a">>, <<"a-tilde", "copyright">>}

\* Hashes of the listed items, by position.
HashNames == <<"h1", "h2", "h3", "h4", "h5">>

\* The item list with the given contents.
ItemList(texts) ==
    [i \in 1 .. Len(texts) |->
        [Item |-> texts[i], Hash |-> HashNames[i], TimeStamp |-> 0, Count |-> 0]]

\* Item lists handed to Search: up to MaxItems items with contents from
\* Fixtures, and every single item with a content of at most MaxLen characters.
SearchLists ==
    {ItemList(texts) : texts \in UNION {[1 .. k -> Fixtures] : k \in 0 .. MaxItems}}
        \cup {ItemList(<<text>>) : text \in Texts(MaxLen)}

\* The queries that differ from query at most in letter case.
CaseVariants(query) ==
    {q \in Texts(Len(query)) :
        /\ Len(q) = Len(query)
        /\ \A i \in 1 .. Len(q) : q[i] = query[i] \/ {q[i], query[i]} = {"a", "A"}}

\* No call of Search.  requery and reresult are the query and the result of
\* a second call on the same items.
NoSearch == [pc |-> "none", items |-> <<>>, query |-> <<>>, result |-> NilSlice,
             requery |-> <<>>, reresult |-> NilSlice]

\* ------------------------------------------------------------- ui.Model
\* No message handled yet: msg is the kind of message ("key", "tick",
\* "size"), key the key pressed, cmd the command Update returned, read the
\* outcome of clipboard.ReadAll ("error", "empty", "content"), arg the
\* content read from or written to the clipboard, fail whether a durable
\* statement of the Manager failed, row the selected row of a delete and
\* index the index it handed to DeleteItem (-1 when there was none).
NoMsg == [msg |-> "none", key |-> "", cmd |-> "nil", read |-> "", arg |-> "",
          fail |-> FALSE, row |-> -1, index |-> -1]

\* No ui.Model.
NoUI == [mode |-> "none", focus |-> FALSE, value |-> <<>>, filtered |-> NilSlice,
         cursor |-> 0, quit |-> FALSE, last |-> NoMsg]

\* NewModel: table view, an empty focused text input, no filter.  mode is
\* Model.mode, focus and value belong to Model.textInput, filtered is
\* Model.filtered, cursor is what tableManager.GetCursor() reports and quit
\* says that Update has returned tea.Quit.
NewModel == [mode |-> "TableView", focus |-> TRUE, value |-> <<>>, filtered |-> NilSlice,
             cursor |-> 0, quit |-> FALSE, last |-> NoMsg]

\* What clipboard.ReadAll may return as content.
Clipboard == {"", "a", "A", "-a"}

\* The characters of a clipboard content.
Chars(content) ==
    CASE content = "" -> <<>>
      [] content = "a" -> <<"a">>
      [] content = "A" -> <<"A">>
      [] content = "-a" -> <<"-", "a">>

\* Keys: msg.String() of a tea.KeyMsg.
Keys == {"ctrl+c", "q", "/", "esc", "enter", "c", "d", "r", "up", "down", "a", "-"}

\* The keys that are one printable character.
Runes == {"q", "/", "c", "d", "r", "a", "-"}

\* ti.CharLimit
CharLimit == 50

\* textInput.Update for a key: a printable character is appended to the
\* value of a focused input below its limit.
textInput_Update(u, key) ==
    IF u.focus /\ key \in Runes /\ Len(u.value) < CharLimit
    THEN Append(u.value, key)
    ELSE u.value

\* Mutant of getDisplayItems: an empty filter result falls back to the whole
\* history.
getDisplayItems_WhenNonEmpty(u, mgr) ==
    IF Len(u.filtered.items) > 0 THEN u.filtered.items ELSE GetItems(mgr)

getDisplayItems(u, mgr) == IF ~u.filtered.nil THEN u.filtered.items ELSE GetItems(mgr)

\* View: what is rendered below the title.
View(u, mgr) ==
    IF u.mode = "SearchView" THEN "search box"
    ELSE IF Len(getDisplayItems(u, mgr)) = 0
         THEN IF ~u.filtered.nil THEN "No results found for your search."
              ELSE "No clipboard history yet..."
         ELSE "table"

\* updateTable: the rows of the table become the displayed items.  The
\* table either keeps its cursor or brings it back onto the last row.
updateTable(u, mgr, clamps) ==
    LET n == Len(getDisplayItems(u, mgr)) IN
    [u EXCEPT !.cursor = IF clamps /\ @ > n - 1 THEN (IF n = 0 THEN 0 ELSE n - 1) ELSE @]

\* table.Update for a key: up and down move the cursor within the rows.
table_Update(u, mgr, key) ==
    LET n == Len(getDisplayItems(u, mgr)) IN
    CASE key = "down" -> IF u.cursor + 1 <= n - 1 THEN u.cursor + 1 ELSE u.cursor
      [] key = "up" -> IF u.cursor > 0 THEN u.cursor - 1 ELSE u.cursor
      [] OTHER -> u.cursor

\* Mutant of filterItems: the empty query filters like any other.
filterItems_EmptyFilters(mgr, query) ==
    LET allItems == GetItems(mgr)
        texts == [i \in 1 .. Len(allItems) |->
                     [allItems[i] EXCEPT !.Item = Chars(allItems[i].Item)]]
        found == Search(texts, query).items
    IN  [nil |-> FALSE,
         items |-> [k \in 1 .. Len(found) |->
                       allItems[CHOOSE i \in 1 .. Len(allItems) : texts[i] = found[k]]]]

\* filterItems: the value Model.filtered takes for a query.
filterItems(mgr, query) ==
    IF query = <<>> THEN NilSlice
    ELSE LET allItems == GetItems(mgr)
             texts == [i \in 1 .. Len(allItems) |->
                          [allItems[i] EXCEPT !.Item = Chars(allItems[i].Item)]]
             found == Search(texts, query).items
         IN  [nil |-> FALSE,
              items |-> [k \in 1 .. Len(found) |->
                            allItems[CHOOSE i \in 1 .. Len(allItems) : texts[i] = found[k]]]]

\* The Model, Manager and table after Update, with the message recorded.
Handled(u, mgr, t, last) == [ui |-> [u EXCEPT !.last = last], mgr |-> mgr, tbl |-> t]

\* Mutant of Update_Delete: the selected row is handed to DeleteItem as the
\* index.
Update_Delete_ByRow(u, mgr, t, ok, clamps) ==
    LET shown == getDisplayItems(u, mgr)
        last == [NoMsg EXCEPT !.msg = "key", !.key = "d"]
    IN  IF Len(shown) > 0 /\ u.cursor < Len(shown)
        THEN LET r == Manager_DeleteItem(mgr, t, u.cursor, ok) IN
             Handled(IF r.ret THEN updateTable(u, r.mgr, clamps) ELSE u,
                     r.mgr, r.tbl,
                     [last EXCEPT !.fail = r.err, !.row = u.cursor, !.index = u.cursor])
        ELSE Handled(u, mgr, t, last)

\* Update, case "d" in table view: the displayed item under the cursor is
\* looked up by hash in the Manager's items and deleted there.
Update_Delete(u, mgr, t, ok, clamps) ==
    LET shown == getDisplayItems(u, mgr)
        last == [NoMsg EXCEPT !.msg = "key", !.key = "d"]
    IN  IF Len(shown) > 0 /\ u.cursor < Len(shown)
        THEN LET itemToDelete == shown[u.cursor + 1]
                 allItems == GetItems(mgr)
                 hit == {i \in 1 .. Len(allItems) : allItems[i].Hash = itemToDelete.Hash}
             IN  IF hit = {} THEN Handled(u, mgr, t, last)
                 ELSE LET i == CHOOSE i \in hit : \A j \in hit : i <= j
                          r == Manager_DeleteItem(mgr, t, i - 1, ok)
                      IN  Handled(IF r.ret THEN updateTable(u, r.mgr, clamps) ELSE u,
                                  r.mgr, r.tbl,
                                  [last EXCEPT !.fail = r.err, !.row = u.cursor,
                                               !.index = i - 1])
        ELSE Handled(u, mgr, t, last)

\* Update, case tea.KeyMsg.
Update_KeyMsg(u, mgr, t, key, ok, clamps) ==
    LET last == [NoMsg EXCEPT !.msg = "key", !.key = key] IN
    IF key \in {"ctrl+c", "q"}
    THEN Handled([u EXCEPT !.quit = TRUE], mgr, t, [last EXCEPT !.cmd = "Quit"])
    ELSE IF key = "/" /\ u.mode = "TableView"
    THEN Handled([u EXCEPT !.mode = "SearchView", !.focus = TRUE], mgr, t,
                 [last EXCEPT !.cmd = "Blink"])
    ELSE IF key = "esc" /\ u.mode = "SearchView"
    THEN Handled(updateTable([u EXCEPT !.mode = "TableView", !.focus = FALSE,
                                       !.value = <<>>, !.filtered = NilSlice],
                             mgr, clamps),
                 mgr, t, last)
    ELSE IF u.mode = "SearchView"
    THEN IF key = "enter"
         THEN Handled([updateTable([u EXCEPT !.filtered = filterItems(mgr, u.value)],
                                   mgr, clamps)
                          EXCEPT !.mode = "TableView", !.focus = FALSE],
                      mgr, t, last)
         ELSE Handled([u EXCEPT !.value = textInput_Update(u, key)], mgr, t,
                      [last EXCEPT !.cmd = "textInput"])
    ELSE CASE key \in {"enter", "c"} ->
                  LET shown == getDisplayItems(u, mgr) IN
                  Handled(u, mgr, t,
                          IF Len(shown) > 0 /\ u.cursor < Len(shown)
                          THEN [last EXCEPT !.arg = shown[u.cursor + 1].Item]
                          ELSE last)
           [] key = "d" -> Update_Delete(u, mgr, t, ok, clamps)
           [] key = "r" ->
                  Handled(updateTable([u EXCEPT !.mode = "TableView", !.value = <<>>,
                                                !.filtered = NilSlice],
                                      mgr, clamps),
                          mgr, t, last)
           [] OTHER ->
                  Handled([u EXCEPT !.cursor = table_Update(u, mgr, key)], mgr, t,
                          [last EXCEPT !.cmd = "table"])

\* Mutant of Update_TickMsg: the empty content is added like any other.
Update_TickMsg_AddsEmpty(u, mgr, t, read, content, clk, ok, clamps) ==
    LET last == [NoMsg EXCEPT !.msg = "tick", !.cmd = "Tick", !.read = read] IN
    IF read # "error"
    THEN LET r == Manager_AddItem(mgr, t, content, clk, ok) IN
         Handled(updateTable(u, r.mgr, clamps), r.mgr, r.tbl,
                 [last EXCEPT !.arg = content, !.fail = r.err])
    ELSE Handled(u, mgr, t, last)

\* Update, case TickMsg: read is the outcome of clipboard.ReadAll.
Update_TickMsg(u, mgr, t, read, content, clk, ok, clamps) ==
    LET last == [NoMsg EXCEPT !.msg = "tick", !.cmd = "Tick", !.read = read] IN
    IF read = "content"
    THEN LET r == Manager_AddItem(mgr, t, content, clk, ok) IN
         Handled(updateTable(u, r.mgr, clamps), r.mgr, r.tbl,
                 [last EXCEPT !.arg = content, !.fail = r.err])
    ELSE Handled(u, mgr, t, last)

\* ------------------------------------------------------------- call sites
\* The two call sites of the Manager: the periodic poller, which calls
\* AddItem, and the interactive path, which calls DeleteItem.  The Manager
\* holds no lock, so a call is a sequence of separate reads and writes of
\* its fields and of the table.
Threads == {"poller", "ui"}

\* A call site outside any call.
IdleProc == [pc |-> "idle", item |-> ZeroItem, index |-> 0, read |-> <<>>]

\* Record of a call site's latest AddItem when two call sites add at the
\* same time: its argument, whether it has returned and what, whether its
\* durable insert failed for a reason other than the primary key, and
\* whether it and the other call site's AddItem of the same content had both
\* passed containsHash before either had inserted.
NoRec == [op |-> "none", arg |-> "", returned |-> FALSE, ret |-> FALSE, fail |-> FALSE,
          raced |-> FALSE]

\* Per call site: its place in a call, the number of calls it has started
\* and the record of its latest AddItem.
IdleProcs == [t \in Threads |-> [call |-> IdleProc, calls |-> 0, rec |-> NoRec]]

Other(t) == CHOOSE u \in Threads : u # t

\* A slice expression out of bounds panics and the process ends.
Running == \A t \in Threads : procs[t].call.pc # "panic"

\* ------------------------------------------------------------ call records
\* Record of a completed call: the operation, its argument, the value it
\* returned, whether its durable statement failed, the number of durable
\* statements it issued, Count() before it ran and whether its argument named
\* a live item then; item is the item a GetItem returned.  rep says that the call is an AddItem and the call before
\* it was an AddItem of the same content; n0, live0 and fail0 are then the n,
\* live and fail of that earlier call (and this call's own otherwise).
NoCall == [op |-> "none", arg |-> "", ret |-> FALSE, fail |-> FALSE, dbCalls |-> 0,
           n |-> 0, live |-> FALSE, rep |-> FALSE, n0 |-> 0, live0 |-> FALSE,
           fail0 |-> FALSE, item |-> ZeroItem]

CallRec(o, a, r, live) ==
    LET rep == o = "AddItem" /\ lastCall.op = o /\ lastCall.arg = a
        fail == r.err
    IN  [op |-> o, arg |-> a, ret |-> r.ret, fail |-> fail, dbCalls |-> r.dbCalls,
         n |-> Count(Mgr), live |-> live, rep |-> rep,
         n0 |-> IF rep THEN lastCall.n ELSE Count(Mgr),
         live0 |-> IF rep THEN lastCall.live ELSE live,
         fail0 |-> IF rep THEN lastCall.fail ELSE fail,
         item |-> ZeroItem]

Live(mgr, content) == \E i \in 1 .. Len(mgr.items) : mgr.items[i].Hash = Hash(content)

InRange(mgr, index) == index >= 0 /\ index < Len(mgr.items)

\* Whether lastCall records a call of operation op.
Observed(op) ==
    CASE observe = "calls" -> TRUE
      [] observe = "restarts" -> op \in {"main", "mainJSON"}
      [] observe = "reads" -> op = "GetItem"
      [] observe = "loads" -> op \in {"LoadFromDB", "LoadFromFile"}
      [] OTHER -> FALSE

\* The order of first successful adds: a successful AddItem extends it; it
\* is given up (pure = FALSE) once a DeleteItem or a LoadFromDB succeeded.
NoOrder == [pure |-> FALSE, seq |-> <<>>]

OrderAfter(rec) ==
    IF observe # "reads" \/ ~order.pure THEN order
    ELSE IF rec.op = "AddItem" /\ rec.ret THEN [order EXCEPT !.seq = Append(@, rec.arg)]
    ELSE IF rec.op \in {"DeleteItem", "LoadFromDB"} /\ rec.ret THEN NoOrder
    ELSE order

\* What a successful call does to the array under Manager.items and, through
\* it, to what the caller's slice reads (cur); taken is what it read when
\* GetItems returned it.
SliceStep(r, rec) ==
    IF observe # "slices" \/ ~rec.ret THEN UNCHANGED <<backing, held>>
    ELSE \E cap \in GrowCaps(Len(items)) :
        LET n == Len(items)
            moved == \/ rec.op = "AddItem" /\ n = Len(backing)
                     \/ rec.op = "LoadFromDB"
            arr == CASE rec.op = "AddItem" ->
                            Backing_Append(backing, n, r.mgr.items[n + 1], cap)
                     [] rec.op = "DeleteItem" -> Backing_Delete(backing, n, rec.arg)
                     [] rec.op = "IncrementItemCount" -> Backing_Increment(backing, rec.arg)
                     [] rec.op = "LoadFromDB" -> r.mgr.items
                     [] OTHER -> backing
            cur == SubSeq(arr, 1, Len(held.cur))
            follow == held.shared /\ ~moved /\ cur = held.taken
        IN  /\ held' = IF held.shared /\ ~moved
                       THEN [held EXCEPT !.cur = cur, !.shared = follow]
                       ELSE IF held.has /\ held.cur = held.taken THEN Released ELSE held
            /\ backing' = Unread(arr, Len(r.mgr.items), IF follow THEN Len(held.cur) ELSE 0)

Commit(r, rec) ==
    /\ SliceStep(r, rec)
    /\ items' = r.mgr.items
    /\ hashes' = r.mgr.hashes
    /\ lastHash' = r.mgr.lastHash
    /\ tbl' = r.tbl
    /\ lastCall' = (IF Observed(rec.op) THEN rec ELSE NoCall)
    /\ order' = OrderAfter(rec)
    /\ UNCHANGED <<observe, procs, search, ui>>

\* ----------------------------------------------------------------- actions
\* A fresh Manager on empty storage.
Init ==
    /\ items = <<>>
    /\ hashes = {}
    /\ lastHash = ""
    /\ tbl = {}
    /\ now = 0
    /\ lastCall = NoCall
    /\ loaded = TRUE
    /\ variant = "db"
    /\ file = NoFile
    /\ observe = "calls"
    /\ order = NoOrder
    /\ backing = <<>>
    /\ held = NoHeld
    /\ procs = IdleProcs
    /\ search = NoSearch
    /\ ui = NoUI

AddItem ==
    \E content \in Contents, clk \in {now, now + 1}, ok \in BOOLEAN :
        LET r == Manager_AddItem(Mgr, tbl, content, clk, ok) IN
        /\ variant = "db"
        /\ clk <= MaxTime
        /\ now' = clk
        /\ Commit(r, CallRec("AddItem", content, r, Live(Mgr, content)))
        /\ UNCHANGED <<loaded, variant, file>>

DeleteItem ==
    \E index \in Indexes(Mgr), ok \in BOOLEAN :
        LET r == Manager_DeleteItem(Mgr, tbl, index, ok) IN
        /\ variant = "db"
        /\ Commit(r, CallRec("DeleteItem", index, r, InRange(Mgr, index)))
        /\ UNCHANGED <<now, loaded, variant, file>>

IncrementItemCount ==
    \E index \in Indexes(Mgr), ok \in BOOLEAN :
        LET r == Manager_IncrementItemCount(Mgr, tbl, index, ok) IN
        /\ variant = "db"
        /\ InRange(Mgr, index) => items[index + 1].Count < MaxCount
        /\ Commit(r, CallRec("IncrementItemCount", index, r, InRange(Mgr, index)))
        /\ UNCHANGED <<now, loaded, variant, file>>

GetItem ==
    \E index \in Indexes(Mgr) :
        LET g == Manager_GetItem(Mgr, index)
            r == [mgr |-> Mgr, tbl |-> tbl, ret |-> g.found, dbCalls |-> 0, err |-> FALSE]
        IN  /\ variant = "db"
            /\ Commit(r, [CallRec("GetItem", index, r, InRange(Mgr, index))
                             EXCEPT !.item = g.item])
            /\ UNCHANGED <<now, loaded, variant, file>>

\* A caller takes GetItems() and keeps the slice (one caller, one slice).
GetItemsHeld ==
    /\ variant = "db"
    /\ observe = "slices"
    /\ ~held.has
    /\ held' = [has |-> TRUE, shared |-> TRUE, taken |-> GetItems(Mgr), cur |-> GetItems(Mgr)]
    /\ UNCHANGED <<items, hashes, lastHash, tbl, now, lastCall, loaded, variant, file,
                   observe, order, backing, procs, search, ui>>

LoadFromDB ==
    \E ok \in BOOLEAN, entries \in Client_LoadAll(tbl) :
        LET r == Manager_LoadFromDB(Mgr, tbl, entries, ok) IN
        /\ variant = "db"
        /\ Commit(r, CallRec("LoadFromDB", "", r, FALSE))
        /\ loaded' = (loaded \/ r.ret)
        /\ UNCHANGED <<now, variant, file>>

\* Process exit and restart (cmd/clippy main): the Manager is closed, a new
\* one is opened on the same storage and LoadFromDB is called on it; a load
\* error is logged and the session goes on with what the Manager holds.
main ==
    \E ok \in BOOLEAN, entries \in Client_LoadAll(tbl) :
        LET r == Manager_LoadFromDB(NewMgr, tbl, entries, ok) IN
        /\ variant = "db"
        /\ Commit(r, CallRec("main", "", r, FALSE))
        /\ loaded' = r.ret
        /\ UNCHANGED <<now, variant, file>>

\* ------------------------------------- steps of calls that may interleave
\* What a step of a call leaves alone besides the Manager and the table.
CallSiteFrame ==
    /\ Running
    /\ UNCHANGED <<lastCall, loaded, variant, file, observe, order, backing, held, search,
                   ui>>

\* AddItem, line 77-78: build the item and test containsHash; the call
\* returns false at once when the hash is known.
AddItem_Check(t) ==
    \E content \in Contents, clk \in {now, now + 1} :
        LET item == newClipboardItem(content, clk)
            known == containsHash(Mgr, item.Hash)
            races == /\ observe = "adders"
                     /\ ~known
                     /\ procs[Other(t)].call.pc = "insert"
                     /\ procs[Other(t)].call.item.Hash = item.Hash
            rec == IF observe = "adders"
                   THEN [op |-> "AddItem", arg |-> content, returned |-> known,
                         ret |-> FALSE, fail |-> FALSE, raced |-> races]
                   ELSE NoRec
        IN
        /\ t = "poller" \/ observe = "adders"
        /\ procs[t].call.pc = "idle"
        /\ procs[t].calls < MaxCalls
        /\ clk <= MaxTime
        /\ now' = clk
        /\ procs' = [u \in Threads |->
                        IF u = t
                        THEN [call |-> IF known THEN IdleProc
                                       ELSE [IdleProc EXCEPT !.pc = "insert", !.item = item],
                              calls |-> procs[t].calls + 1,
                              rec |-> rec]
                        ELSE IF races THEN [procs[u] EXCEPT !.rec.raced = TRUE]
                        ELSE procs[u]]
        /\ UNCHANGED <<items, hashes, lastHash, tbl>>
        /\ CallSiteFrame

\* AddItem, line 79-86: the durable insert; an error returns false.
AddItem_Insert(t) ==
    \E ok \in BOOLEAN :
        LET item == procs[t].call.item
            entry == [Content |-> item.Item, Hash |-> item.Hash,
                      Timestamp |-> item.TimeStamp, Count |-> 0]
            ins == Client_Insert(tbl, entry, ok)
        IN  /\ procs[t].call.pc = "insert"
            /\ tbl' = ins.tbl
            /\ procs' = [procs EXCEPT ![t].call = IF ins.err THEN IdleProc
                                             ELSE [@ EXCEPT !.pc = "append"],
                                      ![t].rec = IF ins.err /\ observe = "adders"
                                                 THEN [@ EXCEPT !.returned = TRUE,
                                                                !.fail = ~ok]
                                                 ELSE @]
            /\ UNCHANGED <<items, hashes, lastHash, now>>
            /\ CallSiteFrame

\* AddItem, line 88, first half: append reads the slice m.items.
AddItem_AppendRead(t) ==
    /\ procs[t].call.pc = "append"
    /\ procs' = [procs EXCEPT ![t].call = [@ EXCEPT !.pc = "store", !.read = items]]
    /\ UNCHANGED <<items, hashes, lastHash, tbl, now>>
    /\ CallSiteFrame

\* AddItem, line 88, second half: the grown slice is stored in m.items.
AddItem_AppendWrite(t) ==
    /\ procs[t].call.pc = "store"
    /\ items' = Append(procs[t].call.read, procs[t].call.item)
    /\ procs' = [procs EXCEPT ![t].call = [@ EXCEPT !.pc = "lastHash", !.read = <<>>]]
    /\ UNCHANGED <<hashes, lastHash, tbl, now>>
    /\ CallSiteFrame

\* AddItem, line 89.
AddItem_SetLastHash(t) ==
    /\ procs[t].call.pc = "lastHash"
    /\ lastHash' = procs[t].call.item.Hash
    /\ procs' = [procs EXCEPT ![t].call = [@ EXCEPT !.pc = "index"]]
    /\ UNCHANGED <<items, hashes, tbl, now>>
    /\ CallSiteFrame

\* AddItem, line 90-91: the hash enters the map and the call returns true.
AddItem_Index(t) ==
    /\ procs[t].call.pc = "index"
    /\ hashes' = hashes \cup {procs[t].call.item.Hash}
    /\ procs' = [procs EXCEPT ![t].call = IdleProc,
                              ![t].rec = IF observe = "adders"
                                         THEN [@ EXCEPT !.returned = TRUE, !.ret = TRUE]
                                         ELSE @]
    /\ UNCHANGED <<items, lastHash, tbl, now>>
    /\ CallSiteFrame

\* DeleteItem, line 116-117: the bounds check and the read of the item; an
\* index out of range returns false at once.
DeleteItem_Check(t) ==
    \E index \in Indexes(Mgr) :
        /\ t = "ui"
        /\ procs[t].call.pc = "idle"
        /\ procs[t].calls < MaxCalls
        /\ procs' = IF InRange(Mgr, index)
                    THEN [procs EXCEPT ![t].calls = @ + 1,
                                       ![t].call = [IdleProc EXCEPT !.pc = "delete",
                                                                    !.index = index,
                                                                    !.item = items[index + 1]]]
                    ELSE [procs EXCEPT ![t].calls = @ + 1]
        /\ UNCHANGED <<items, hashes, lastHash, tbl, now>>
        /\ CallSiteFrame

\* DeleteItem, line 119-121: the durable delete; an error returns false.
DeleteItem_Delete(t) ==
    \E ok \in BOOLEAN :
        LET del == Client_Delete(tbl, procs[t].call.item.Hash, ok) IN
        /\ procs[t].call.pc = "delete"
        /\ tbl' = del.tbl
        /\ procs' = [procs EXCEPT ![t].call = IF del.err THEN IdleProc
                                         ELSE [@ EXCEPT !.pc = "unindex"]]
        /\ UNCHANGED <<items, hashes, lastHash, now>>
        /\ CallSiteFrame

\* DeleteItem, line 123.
DeleteItem_Unindex(t) ==
    /\ procs[t].call.pc = "unindex"
    /\ hashes' = hashes \ {procs[t].call.item.Hash}
    /\ procs' = [procs EXCEPT ![t].call = [@ EXCEPT !.pc = "splice"]]
    /\ UNCHANGED <<items, lastHash, tbl, now>>
    /\ CallSiteFrame

\* DeleteItem, line 124, first half: append reads the slice m.items;
\* m.items[index+1:] panics when index+1 is past its length.
DeleteItem_SpliceRead(t) ==
    /\ procs[t].call.pc = "splice"
    /\ procs' = [procs EXCEPT ![t].call =
                    IF procs[t].call.index < Len(items)
                    THEN [@ EXCEPT !.pc = "store", !.read = items]
                    ELSE [@ EXCEPT !.pc = "panic"]]
    /\ UNCHANGED <<items, hashes, lastHash, tbl, now>>
    /\ CallSiteFrame

\* DeleteItem, line 124-125, second half: the shortened slice is stored in
\* m.items and the call returns true.
DeleteItem_SpliceWrite(t) ==
    /\ t = "ui"
    /\ procs[t].call.pc = "store"
    /\ items' = RemoveAt(procs[t].call.read, procs[t].call.index)
    /\ procs' = [procs EXCEPT ![t].call = IdleProc]
    /\ UNCHANGED <<hashes, lastHash, tbl, now>>
    /\ CallSiteFrame

\* --------------------------------------------------------- action, Search
\* FuzzyMatcher.Search is called with the arguments drawn at the start.
SearchCall ==
    /\ search.pc = "ready"
    /\ search' = [search EXCEPT !.pc = "done", !.result = Search(search.items, search.query)]
    /\ UNCHANGED <<items, hashes, lastHash, tbl, now, lastCall, loaded, variant, file,
                   observe, order, backing, held, procs, ui>>

\* FuzzyMatcher.Search is called a second time on the same items, with the
\* same query or with one that differs from it in letter case.
SearchAgain ==
    /\ search.pc = "done"
    /\ \E q \in CaseVariants(search.query) :
           search' = [search EXCEPT !.pc = "again", !.requery = q,
                                    !.reresult = Search(search.items, q)]
    /\ UNCHANGED <<items, hashes, lastHash, tbl, now, lastCall, loaded, variant, file,
                   observe, order, backing, held, procs, ui>>

\* ------------------------------------------------ actions, ui.Model
\* The Bubble Tea loop hands Update one message at a time until Update has
\* returned tea.Quit.
UIFrame ==
    /\ variant = "db"
    /\ observe = "ui"
    /\ ~ui.quit
    /\ UNCHANGED <<lastCall, loaded, variant, file, observe, order, backing, held, procs,
                   search>>

UICommit(r) ==
    /\ ui' = r.ui
    /\ items' = r.mgr.items
    /\ hashes' = r.mgr.hashes
    /\ lastHash' = r.mgr.lastHash
    /\ tbl' = r.tbl

\* Update with a tea.KeyMsg.  Typing stops at MaxQuery characters.  The
\* outcome of the durable delete is drawn where a delete is asked for, and
\* that of the table's SetRows where updateTable may run.
UpdateKeyMsg ==
    \E key \in Keys :
    \E ok \in (IF key = "d" THEN BOOLEAN ELSE {TRUE}),
       clamps \in (IF key \in {"esc", "enter", "d", "r"} THEN BOOLEAN ELSE {FALSE}) :
        /\ UIFrame
        /\ (ui.mode = "SearchView" /\ key \in Runes) => Len(ui.value) < MaxQuery
        /\ UICommit(Update_KeyMsg(ui, Mgr, tbl, key, ok, clamps))
        /\ UNCHANGED now

\* Update with a TickMsg: clipboard.ReadAll fails or returns a content.
UpdateTickMsg ==
    \E err \in BOOLEAN :
    \E content \in (IF err THEN {""} ELSE Clipboard), clk \in {now, now + 1} :
    \E ok \in (IF content = "" THEN {TRUE} ELSE BOOLEAN),
       clamps \in (IF content = "" THEN {FALSE} ELSE BOOLEAN) :
        LET read == IF err THEN "error" ELSE IF content = "" THEN "empty" ELSE "content" IN
        /\ UIFrame
        /\ clk <= MaxTime
        /\ now' = clk
        /\ UICommit(Update_TickMsg(ui, Mgr, tbl, read, content, clk, ok, clamps))

\* Update with a tea.WindowSizeMsg: the sizes are stored and handed to the
\* table; they bear on rendering only.
UpdateWindowSizeMsg ==
    /\ UIFrame
    /\ UICommit(Handled(ui, Mgr, tbl, [NoMsg EXCEPT !.msg = "size"]))
    /\ UNCHANGED now

\* ---------------------------------------------- actions, JSON Manager
\* The result of a JSON Manager call in the shape Commit and CallRec take.
JSONResult(mgr, ret, failed) ==
    [mgr |-> mgr, tbl |-> tbl, ret |-> ret, dbCalls |-> 0, err |-> failed]

AddItemJSON ==
    \E content \in Contents, clk \in {now, now + 1} :
        LET a == JSONManager_AddItem(Mgr, content, clk)
            r == JSONResult(a.mgr, a.ret, FALSE)
        IN  /\ variant = "json"
            /\ clk <= MaxTime
            /\ now' = clk
            /\ Commit(r, CallRec("AddItem", content, r, Live(Mgr, content)))
            /\ UNCHANGED <<loaded, variant, file>>

SaveToFile ==
    \E outcome \in {"ok", "create", "encode"} :
        LET sv == JSONManager_SaveToFile(Mgr, file, outcome)
            r == JSONResult(Mgr, sv.ret, ~sv.ret)
        IN  /\ variant = "json"
            /\ Commit(r, CallRec("SaveToFile", "", r, FALSE))
            /\ file' = sv.file
            /\ UNCHANGED <<now, loaded, variant>>

LoadFromFile ==
    \E openOk \in BOOLEAN :
        LET ld == JSONManager_LoadFromFile(Mgr, file, openOk)
            r == JSONResult(ld.mgr, ld.ret, ~ld.ret \/ ~ld.opened)
        IN  /\ variant = "json"
            /\ Commit(r, CallRec("LoadFromFile", "", r, FALSE))
            /\ UNCHANGED <<now, loaded, variant, file>>

\* Process exit and restart of the JSON build: SaveToFile on exit, then a
\* new Manager and LoadFromFile; both errors are only logged.
mainJSON ==
    \E outcome \in {"ok", "create", "encode"}, openOk \in BOOLEAN :
        LET sv == JSONManager_SaveToFile(Mgr, file, outcome)
            ld == JSONManager_LoadFromFile(NewMgr, sv.file, openOk)
            r == JSONResult(ld.mgr, sv.ret /\ ld.ret, ~sv.ret \/ ~ld.ret \/ ~ld.opened)
        IN  /\ variant = "json"
            /\ Commit(r, CallRec("mainJSON", "", r, FALSE))
            /\ file' = sv.file
            /\ UNCHANGED <<now, loaded, variant>>

Next == AddItem \/ DeleteItem \/ IncrementItemCount \/ LoadFromDB

\* One session of one Manager on storage that starts empty.
Spec == Init /\ [][Next]_vars

\* One session whose reads are recorded: GetItem calls, and the order in
\* which contents were first added.
InitReads ==
    /\ items = <<>>
    /\ hashes = {}
    /\ lastHash = ""
    /\ tbl = {}
    /\ now = 0
    /\ lastCall = NoCall
    /\ loaded = TRUE
    /\ variant = "db"
    /\ file = NoFile
    /\ observe = "reads"
    /\ order = [pure |-> TRUE, seq |-> <<>>]
    /\ backing = <<>>
    /\ held = NoHeld
    /\ procs = IdleProcs
    /\ search = NoSearch
    /\ ui = NoUI

NextReads == AddItem \/ DeleteItem \/ IncrementItemCount \/ LoadFromDB \/ GetItem

SpecReads == InitReads /\ [][NextReads]_vars

\* One session in which the array under Manager.items is followed and a
\* caller holds on to a slice it got from GetItems.  The clock stands at its
\* last reading: capture times play no part in what a held slice reads.
InitSlices ==
    /\ items = <<>>
    /\ hashes = {}
    /\ lastHash = ""
    /\ tbl = {}
    /\ now = MaxTime
    /\ lastCall = NoCall
    /\ loaded = TRUE
    /\ variant = "db"
    /\ file = NoFile
    /\ observe = "slices"
    /\ order = NoOrder
    /\ backing = <<>>
    /\ held = NoHeld
    /\ procs = IdleProcs
    /\ search = NoSearch
    /\ ui = NoUI

NextSlices == AddItem \/ DeleteItem \/ IncrementItemCount \/ LoadFromDB \/ GetItemsHeld

SpecSlices == InitSlices /\ [][NextSlices]_vars

\* One session in which the poller and the interactive path call the
\* Manager at the same time, their steps interleaved in every way.
InitConcurrent ==
    /\ items = <<>>
    /\ hashes = {}
    /\ lastHash = ""
    /\ tbl = {}
    /\ now = 0
    /\ lastCall = NoCall
    /\ loaded = TRUE
    /\ variant = "db"
    /\ file = NoFile
    /\ observe = "threads"
    /\ order = NoOrder
    /\ backing = <<>>
    /\ held = NoHeld
    /\ procs = IdleProcs
    /\ search = NoSearch
    /\ ui = NoUI

NextConcurrent ==
    \/ \E t \in Threads : AddItem_Check(t)
    \/ \E t \in Threads : AddItem_Insert(t)
    \/ \E t \in Threads : AddItem_AppendRead(t)
    \/ \E t \in Threads : AddItem_AppendWrite(t)
    \/ \E t \in Threads : AddItem_SetLastHash(t)
    \/ \E t \in Threads : AddItem_Index(t)
    \/ \E t \in Threads : DeleteItem_Check(t)
    \/ \E t \in Threads : DeleteItem_Delete(t)
    \/ \E t \in Threads : DeleteItem_Unindex(t)
    \/ \E t \in Threads : DeleteItem_SpliceRead(t)
    \/ \E t \in Threads : DeleteItem_SpliceWrite(t)

SpecConcurrent == InitConcurrent /\ [][NextConcurrent]_vars

\* One session in which two call sites call AddItem at the same time, their
\* steps interleaved in every way.
InitAdders ==
    /\ items = <<>>
    /\ hashes = {}
    /\ lastHash = ""
    /\ tbl = {}
    /\ now = 0
    /\ lastCall = NoCall
    /\ loaded = TRUE
    /\ variant = "db"
    /\ file = NoFile
    /\ observe = "adders"
    /\ order = NoOrder
    /\ backing = <<>>
    /\ held = NoHeld
    /\ procs = IdleProcs
    /\ search = NoSearch
    /\ ui = NoUI

NextAdders ==
    \/ \E t \in Threads : AddItem_Check(t)
    \/ \E t \in Threads : AddItem_Insert(t)
    \/ \E t \in Threads : AddItem_AppendRead(t)
    \/ \E t \in Threads : AddItem_AppendWrite(t)
    \/ \E t \in Threads : AddItem_SetLastHash(t)
    \/ \E t \in Threads : AddItem_Index(t)

SpecAdders == InitAdders /\ [][NextAdders]_vars

\* The program with its UI on a fresh Manager.
InitUI ==
    /\ items = <<>>
    /\ hashes = {}
    /\ lastHash = ""
    /\ tbl = {}
    /\ now = MaxTime
    /\ lastCall = NoCall
    /\ loaded = TRUE
    /\ variant = "db"
    /\ file = NoFile
    /\ observe = "ui"
    /\ order = NoOrder
    /\ backing = <<>>
    /\ held = NoHeld
    /\ procs = IdleProcs
    /\ search = NoSearch
    /\ ui = NewModel

NextUI == UpdateKeyMsg \/ UpdateTickMsg \/ UpdateWindowSizeMsg

SpecUI == InitUI /\ [][NextUI]_vars

\* One call of Search on an item list and a query.
InitSearch ==
    /\ items = <<>>
    /\ hashes = {}
    /\ lastHash = ""
    /\ tbl = {}
    /\ now = 0
    /\ lastCall = NoCall
    /\ loaded = TRUE
    /\ variant = "db"
    /\ file = NoFile
    /\ observe = "search"
    /\ order = NoOrder
    /\ backing = <<>>
    /\ held = NoHeld
    /\ procs = IdleProcs
    /\ \E list \in SearchLists, query \in Texts(MaxLen) :
           search = [NoSearch EXCEPT !.pc = "ready", !.items = list, !.query = query]
    /\ ui = NoUI

NextSearch == SearchCall \/ SearchAgain

SpecSearch == InitSearch /\ [][NextSearch]_vars

\* The characters of the texts handed to fuzzyMatch alone: the letter a in
\* both cases and the six boundary characters; and those of its queries.
ScoreAlphabet == {"a", "A", " ", "-", "_", ".", "/", "\\"}

QueryAlphabet == {"a", "A", "-"}

TextsOver(alphabet, n) == UNION {[1 .. k -> alphabet] : k \in 0 .. n}

\* A call of fuzzyMatch: its arguments and its result.
NoScore == [pc |-> "ready", text |-> <<>>, query |-> <<>>, score |-> -1]

\* One call of fuzzyMatch on a text and a query.
InitScore ==
    /\ items = <<>>
    /\ hashes = {}
    /\ lastHash = ""
    /\ tbl = {}
    /\ now = 0
    /\ lastCall = NoCall
    /\ loaded = TRUE
    /\ variant = "db"
    /\ file = NoFile
    /\ observe = "search"
    /\ order = NoOrder
    /\ backing = <<>>
    /\ held = NoHeld
    /\ procs = IdleProcs
    /\ ui = NoUI
    /\ \E text \in TextsOver(ScoreAlphabet, MaxLen), query \in TextsOver(QueryAlphabet, MaxLen) :
           search = [NoScore EXCEPT !.text = text, !.query = query]

\* fuzzyMatch is called with the arguments drawn at the start.
ScoreCall ==
    /\ search.pc = "ready"
    /\ search' = [search EXCEPT !.pc = "scored",
                                !.score = fuzzyMatch(Bytes(search.text), Bytes(search.query))]
    /\ UNCHANGED <<items, hashes, lastHash, tbl, now, lastCall, loaded, variant, file,
                   observe, order, backing, held, procs, ui>>

NextScore == ScoreCall

SpecScore == InitScore /\ [][NextScore]_vars

\* ------------------------------------- fuzzyMatch, one loop test at a time
\* The locals of a call of fuzzyMatch on byte sequences, the text indexes it
\* has read, and where it stands: at its entry, at the test of the outer
\* loop, at the test of the inner loop, at the test of found, after the
\* outer loop, returned, or stopped by the runtime on an index out of range.
NoLocals == [pc |-> "entry", text |-> <<>>, query |-> <<>>, score |-> 0, textIdx |-> 0,
             queryIdx |-> 0, lastMatchIdx |-> -1, consecutiveMatches |-> 0,
             queryChar |-> 0, found |-> FALSE, reads |-> {}]

InitLocals ==
    /\ items = <<>>
    /\ hashes = {}
    /\ lastHash = ""
    /\ tbl = {}
    /\ now = 0
    /\ lastCall = NoCall
    /\ loaded = TRUE
    /\ variant = "db"
    /\ file = NoFile
    /\ observe = "search"
    /\ order = NoOrder
    /\ backing = <<>>
    /\ held = NoHeld
    /\ procs = IdleProcs
    /\ ui = NoUI
    /\ \E text \in TextsOver(ScoreAlphabet, MaxLen), query \in TextsOver(QueryAlphabet, MaxLen) :
           search = [NoLocals EXCEPT !.text = Bytes(text), !.query = Bytes(query)]

LocalsFrame ==
    UNCHANGED <<items, hashes, lastHash, tbl, now, lastCall, loaded, variant, file,
                observe, order, backing, held, procs, ui>>

\* The two early returns.
fuzzyMatch_Entry ==
    /\ search.pc = "entry"
    /\ search' = IF Len(search.query) = 0 THEN [search EXCEPT !.pc = "return", !.score = 1]
                 ELSE IF Len(search.text) = 0 THEN [search EXCEPT !.pc = "return", !.score = 0]
                 ELSE [search EXCEPT !.pc = "outer"]
    /\ LocalsFrame

\* The test of the outer loop and the head of its body.
fuzzyMatch_Outer ==
    /\ search.pc = "outer"
    /\ search' = IF search.queryIdx < Len(search.query) /\ search.textIdx < Len(search.text)
                 THEN [search EXCEPT !.pc = "inner", !.found = FALSE,
                                     !.queryChar = search.query[search.queryIdx + 1]]
                 ELSE [search EXCEPT !.pc = "after"]
    /\ LocalsFrame

\* Mutant of BoundaryReads: the byte before the match is read at index 0
\* too.
BoundaryReads_Unguarded(textIdx) == {textIdx - 1}

\* The text indexes the word-boundary condition reads at a match.
BoundaryReads(textIdx) == IF textIdx = 0 THEN {} ELSE {textIdx - 1}

\* The text indexes the case-transition condition reads at a match.
TransitionReads(text, textIdx) ==
    IF textIdx > 0
    THEN {textIdx - 1} \cup (IF isLower(text[textIdx]) THEN {textIdx} ELSE {})
    ELSE {}

\* The test of the inner loop and one pass through its body.
fuzzyMatch_Inner ==
    /\ search.pc = "inner"
    /\ LET text == search.text
           textIdx == search.textIdx
           Inside(k) == k >= 0 /\ k < Len(text)
       IN  search' =
               IF ~(textIdx < Len(text)) THEN [search EXCEPT !.pc = "found"]
               ELSE IF text[textIdx + 1] # search.queryChar
               THEN [search EXCEPT !.textIdx = textIdx + 1, !.reads = @ \cup {textIdx}]
               ELSE LET more == BoundaryReads(textIdx) \cup TransitionReads(text, textIdx)
                        run == IF textIdx = search.lastMatchIdx + 1
                               THEN search.consecutiveMatches + 1 ELSE 0
                        positionScore ==
                            (Len(text) - textIdx)
                            + (IF textIdx = search.lastMatchIdx + 1 THEN run * 10 ELSE 0)
                            + (IF textIdx = 0 \/ isWordBoundary(text[textIdx]) THEN 15 ELSE 0)
                            + (IF textIdx > 0 /\ isLower(text[textIdx])
                                  /\ isUpper(text[textIdx + 1])
                               THEN 10 ELSE 0)
                    IN  IF \E k \in more : ~Inside(k)
                        THEN [search EXCEPT !.pc = "panic",
                                            !.reads = @ \cup {textIdx} \cup more]
                        ELSE [search EXCEPT !.pc = "found", !.found = TRUE,
                                            !.score = @ + positionScore,
                                            !.consecutiveMatches = run,
                                            !.lastMatchIdx = textIdx,
                                            !.queryIdx = @ + 1,
                                            !.textIdx = textIdx + 1,
                                            !.reads = @ \cup {textIdx} \cup more]
    /\ LocalsFrame

\* The test of found after the inner loop.
fuzzyMatch_Found ==
    /\ search.pc = "found"
    /\ search' = IF ~search.found THEN [search EXCEPT !.pc = "return", !.score = 0]
                 ELSE [search EXCEPT !.pc = "outer"]
    /\ LocalsFrame

\* What follows the outer loop.
fuzzyMatch_After ==
    /\ search.pc = "after"
    /\ search' = IF search.queryIdx = Len(search.query)
                 THEN [search EXCEPT !.pc = "return",
                                     !.score = @ + (IF Len(search.text) < 50
                                                    THEN (50 - Len(search.text)) * 2 ELSE 0)]
                 ELSE [search EXCEPT !.pc = "return", !.score = 0]
    /\ LocalsFrame

NextLocals ==
    \/ fuzzyMatch_Entry
    \/ fuzzyMatch_Outer
    \/ fuzzyMatch_Inner
    \/ fuzzyMatch_Found
    \/ fuzzyMatch_After

SpecLocals == InitLocals /\ [][NextLocals]_vars

\* The caller's goroutine keeps running fuzzyMatch until it returns.
FairLocals == SpecLocals /\ WF_vars(NextLocals)

\* A fresh Manager of either build on empty storage.
InitSessions ==
    /\ items = <<>>
    /\ hashes = {}
    /\ lastHash = ""
    /\ tbl = {}
    /\ now = 0
    /\ lastCall = NoCall
    /\ loaded = TRUE
    /\ variant \in {"db", "json"}
    /\ file = NoFile
    /\ observe = "restarts"
    /\ order = NoOrder
    /\ backing = <<>>
    /\ held = NoHeld
    /\ procs = IdleProcs
    /\ search = NoSearch
    /\ ui = NoUI

NextSessions ==
    \/ AddItem \/ DeleteItem \/ IncrementItemCount \/ LoadFromDB \/ main
    \/ AddItemJSON \/ SaveToFile \/ LoadFromFile \/ mainJSON

\* Any number of sessions of one build on the same storage.
SpecSessions == InitSessions /\ [][NextSessions]_vars

\* The calls of one build on its storage, with the loads recorded.
InitLoads ==
    /\ items = <<>>
    /\ hashes = {}
    /\ lastHash = ""
    /\ tbl = {}
    /\ now = 0
    /\ lastCall = NoCall
    /\ loaded = TRUE
    /\ variant \in {"db", "json"}
    /\ file = NoFile
    /\ observe = "loads"
    /\ order = NoOrder
    /\ backing = <<>>
    /\ held = NoHeld
    /\ procs = IdleProcs
    /\ search = NoSearch
    /\ ui = NoUI

NextLoads ==
    \/ AddItem \/ DeleteItem \/ IncrementItemCount \/ LoadFromDB
    \/ AddItemJSON \/ SaveToFile \/ LoadFromFile

SpecLoads == InitLoads /\ [][NextLoads]_vars

\* ------------------------------------------------------ notions for claims
\* a ranks at or before b: higher copy count, then later capture time.
RankedBefore(a, b) ==
    \/ a.Count > b.Count
    \/ a.Count = b.Count /\ a.TimeStamp >= b.TimeStamp

Ranked(s) == \A i, j \in 1 .. Len(s) : i < j => RankedBefore(s[i], s[j])

MemTriples(s) == {<<s[i].Hash, s[i].Item, s[i].Count>> : i \in 1 .. Len(s)}

TblTriples(t) == {<<r.hash, r.content, r.count>> : r \in t}

TblItems(t) ==
    {[Item |-> r.content, Hash |-> r.hash, TimeStamp |-> r.timestamp, Count |-> r.count] : r \in t}

MemUnchanged == UNCHANGED <<items, hashes, lastHash>>

\* ---------------------------------------------------------------- claims

\* C1: two AddItem(c) calls in a row, with storage working in both, raise
\* Count() by exactly 1 in total when c was not live before the first call
\* (by 0 when it was), and the second call returns false.
C1_DoubleAdd ==
    (lastCall.op = "AddItem" /\ lastCall.rep /\ ~lastCall.fail /\ ~lastCall.fail0)
        => /\ lastCall.ret = FALSE
           /\ Len(items) - lastCall.n0 = (IF lastCall.live0 THEN 0 ELSE 1)

\* C2: no two items of GetItems() have the same hash.
C2_UniqueHash ==
    \A i, j \in 1 .. Len(items) : i # j => items[i].Hash # items[j].Hash

C2_Witness ==
    /\ Len(items) = Cardinality(Contents)
    /\ lastCall.op = "AddItem" /\ lastCall.live /\ ~lastCall.ret

\* C3: AddItem(c) with no live item of c's hash and no storage failure
\* returns true, makes c live and raises Count() by 1.
C3_AddAbsent ==
    (lastCall.op = "AddItem" /\ ~lastCall.live /\ ~lastCall.fail)
        => /\ lastCall.ret = TRUE
           /\ Live(Mgr, lastCall.arg)
           /\ Len(items) = lastCall.n + 1

C6_InsertFailure ==
    [][(lastCall'.op = "AddItem" /\ lastCall'.fail)
          => (lastCall'.ret = FALSE /\ MemUnchanged)]_vars

C6_Witness ==
    /\ lastCall.op = "AddItem" /\ lastCall.fail /\ ~lastCall.live
    /\ Len(items) >= 1

\* C7: DeleteItem with an index outside [0, Count()) returns false, issues
\* no durable delete and changes neither the Manager nor the table.
C7_DeleteOutOfRange ==
    [][(lastCall'.op = "DeleteItem" /\ ~(lastCall'.arg >= 0 /\ lastCall'.arg < Len(items)))
          => /\ lastCall'.ret = FALSE
             /\ lastCall'.dbCalls = 0
             /\ MemUnchanged
             /\ UNCHANGED tbl]_vars

C7_Witness ==
    /\ lastCall.op = "DeleteItem"
    /\ lastCall.arg = Len(items)
    /\ Len(items) >= 1
    /\ ~lastCall.ret

\* C8: a DeleteItem with an in-range index whose durable delete fails
\* returns false and leaves the Manager as it was, so that memory and
\* storage still hold the same items.
C8_DeleteFailure ==
    [][(lastCall'.op = "DeleteItem" /\ lastCall'.live /\ lastCall'.fail)
          => /\ lastCall'.ret = FALSE
             /\ MemUnchanged
             /\ SeqToSet(items') = TblItems(tbl')]_vars

C8_Witness ==
    /\ lastCall.op = "DeleteItem" /\ lastCall.live /\ lastCall.fail
    /\ Len(items) >= 2

\* C9: after every completed call the (hash, content, count) triples held in
\* memory are exactly those of the durable rows.
C9_Mirror ==
    /\ MemTriples(items) = TblTriples(tbl)
    /\ Len(items) = Cardinality(tbl)

C9_Witness ==
    /\ lastCall.op = "IncrementItemCount" /\ lastCall.fail
    /\ Len(items) >= 2
    /\ \E i \in 1 .. Len(items) : items[i].Count > 0

C10_WitnessJSON ==
    /\ lastCall.op = "mainJSON" /\ lastCall.ret /\ ~lastCall.fail
    /\ Len(items) >= 2

\* C11: GetItem(i) returns found = true exactly when 0 <= i < Count(), then
\* with the item GetItems()[i], and otherwise the zero item; it changes
\* neither the Manager nor the table.
C11_GetItem ==
    [][lastCall'.op = "GetItem"
          => LET i == lastCall'.arg IN
             /\ lastCall'.ret = (0 <= i /\ i < Count(Mgr))
             /\ lastCall'.ret => lastCall'.item = GetItems(Mgr)[i + 1]
             /\ ~lastCall'.ret => lastCall'.item = ZeroItem
             /\ MemUnchanged
             /\ UNCHANGED tbl]_vars

C11_Witness ==
    /\ lastCall.op = "GetItem" /\ lastCall.ret
    /\ lastCall.arg = 1
    /\ lastCall.item = items[2]
    /\ items[1] # items[2]

\* C12: as long as no DeleteItem and no LoadFromDB has succeeded, GetItems()
\* holds the contents in the order of their first successful AddItem, and
\* GetItem(k) returns the k-th of them.
C12_InsertionOrder ==
    order.pure
        => /\ [i \in 1 .. Len(items) |-> items[i].Item] = order.seq
           /\ (lastCall.op = "GetItem" /\ lastCall.ret)
                  => lastCall.item.Item = order.seq[lastCall.arg + 1]

C12_Witness ==
    /\ order.pure
    /\ Len(order.seq) = Cardinality(Contents)
    /\ lastCall.op = "GetItem" /\ lastCall.ret /\ lastCall.arg = 2
    /\ \E i \in 1 .. Len(items) : items[i].Count > 0

\* C13: an item enters the sequence with copy count 0; the count of a live
\* item, in memory and in its durable row, changes only by +1 and only in a
\* successful IncrementItemCount on that item.
C13_CopyCount ==
    [][/\ \A j \in 1 .. Len(items') :
              (\A i \in 1 .. Len(items) : items[i].Hash # items'[j].Hash)
                  => items'[j].Count = 0
       /\ \A i \in 1 .. Len(items), j \in 1 .. Len(items') :
              items[i].Hash = items'[j].Hash
                  => \/ items'[j].Count = items[i].Count
                     \/ /\ items'[j].Count = items[i].Count + 1
                        /\ lastCall'.op = "IncrementItemCount" /\ lastCall'.ret
                        /\ lastCall'.arg = i - 1
       /\ \A r \in tbl, q \in tbl' :
              r.hash = q.hash
                  => \/ q.count = r.count
                     \/ /\ q.count = r.count + 1
                        /\ lastCall'.op = "IncrementItemCount" /\ lastCall'.ret]_vars

C13_Witness ==
    /\ lastCall.op = "IncrementItemCount" /\ lastCall.ret
    /\ lastCall.arg = 1
    /\ Len(items) >= 2
    /\ items[2].Count = MaxCount
    /\ items[1].Count = 0

\* C14: AddItem of content that is live returns false, issues no durable
\* statement and changes neither the Manager (every item keeps content, hash,
\* timestamp, count and position) nor the table.
C14_AddLiveNoOp ==
    [][(lastCall'.op = "AddItem" /\ lastCall'.live)
          => /\ lastCall'.ret = FALSE
             /\ lastCall'.dbCalls = 0
             /\ MemUnchanged
             /\ UNCHANGED tbl]_vars

C14_Witness ==
    /\ lastCall.op = "AddItem" /\ lastCall.live
    /\ Len(items) >= 2
    /\ lastCall.arg = items[1].Item
    /\ items[1].TimeStamp < now

\* C15: IncrementItemCount with an index outside [0, Count()) returns an
\* error and changes nothing; with an index in range it raises that item's
\* count by 1 in memory and in its durable row and returns nil, unless the
\* durable increment fails, and then it returns the error and changes nothing.
C15_IncrementItemCount ==
    [][lastCall'.op = "IncrementItemCount"
          => LET i == lastCall'.arg IN
             /\ ~InRange(Mgr, i)
                    => /\ lastCall'.ret = FALSE /\ lastCall'.dbCalls = 0
                       /\ MemUnchanged /\ UNCHANGED tbl
             /\ (InRange(Mgr, i) /\ lastCall'.fail)
                    => /\ lastCall'.ret = FALSE
                       /\ MemUnchanged /\ UNCHANGED tbl
             /\ (InRange(Mgr, i) /\ ~lastCall'.fail)
                    => /\ lastCall'.ret = TRUE
                       /\ items' = [items EXCEPT ![i + 1].Count = @ + 1]
                       /\ UNCHANGED <<hashes, lastHash>>
                       /\ tbl' = {IF r.hash = items[i + 1].Hash
                                  THEN [r EXCEPT !.count = @ + 1] ELSE r : r \in tbl}
                       /\ \E r \in tbl : r.hash = items[i + 1].Hash]_vars

C15_Witness ==
    /\ lastCall.op = "IncrementItemCount" /\ ~lastCall.ret
    /\ lastCall.arg = Len(items)
    /\ Len(items) >= 2
    /\ items[Len(items)].Count > 0

\* C16: a sequence a caller got from GetItems() reads the same afterwards,
\* whatever AddItem, DeleteItem or IncrementItemCount the Manager runs.
C16_HeldSliceStable == held.has => held.cur = held.taken

RECURSIVE IsSubsequence(_, _)
IsSubsequence(q, t) ==
    IF q = <<>> THEN TRUE
    ELSE IF t = <<>> THEN FALSE
    ELSE IF Head(q) = Head(t) THEN IsSubsequence(Tail(q), Tail(t))
    ELSE IsSubsequence(q, Tail(t))

\* The item's characters contain the query's characters in order, case aside.
CharMatch(item, query) == IsSubsequence(ToLower(query), ToLower(item.Item))

\* The same over the UTF-8 bytes of the lower-cased strings.
ByteMatch(item, query) ==
    IsSubsequence(Bytes(ToLower(query)), Bytes(ToLower(item.Item)))

\* C18: Search with the empty query returns nil; with a non-empty query that
\* matches no item it returns a slice of length 0 that is not nil.
C18_NilVersusEmpty ==
    search.pc = "done"
        => /\ search.query = <<>> => search.result = NilSlice
           /\ search.query # <<>> => ~search.result.nil
           /\ (/\ search.query # <<>>
               /\ \A i \in 1 .. Len(search.items) : ~ByteMatch(search.items[i], search.query))
                  => search.result = [nil |-> FALSE, items |-> <<>>]

C18_Witness ==
    /\ search.pc = "done"
    /\ search.query # <<>>
    /\ Len(search.items) >= 2
    /\ search.result = [nil |-> FALSE, items |-> <<>>]

\* C19 as stated: for a non-empty query Search returns exactly the items
\* whose characters contain the query's characters in order, case aside,
\* each once.
C19_CharSubsequence ==
    (search.pc = "done" /\ search.query # <<>>)
        => /\ SeqToSet(search.result.items)
                  = {search.items[i] : i \in {j \in 1 .. Len(search.items) :
                                                  CharMatch(search.items[j], search.query)}}
           /\ Len(search.result.items) = Cardinality(SeqToSet(search.result.items))

\* C19 amended: the same with the subsequence taken over the UTF-8 bytes of
\* the lower-cased strings; an item scores above 0 exactly when it matches.
C19_ByteSubsequence ==
    (search.pc = "done" /\ search.query # <<>>)
        => /\ SeqToSet(search.result.items)
                  = {search.items[i] : i \in {j \in 1 .. Len(search.items) :
                                                  ByteMatch(search.items[j], search.query)}}
           /\ Len(search.result.items) = Cardinality(SeqToSet(search.result.items))
           /\ \A i \in 1 .. Len(search.items) :
                  ItemScore(search.items[i], search.query) > 0
                      <=> ByteMatch(search.items[i], search.query)

C19_Witness ==
    /\ search.pc = "done"
    /\ search.query = <<"-", "a">>
    /\ Len(search.items) = 3
    /\ Len(search.result.items) = 1
    /\ search.items[1].Item = <<"a">>
    /\ search.items[2].Item = <<"-", "a">>
    /\ search.items[3].Item = <<"A">>

\* C20: the result of Search is in order of non-increasing score.
C20_SortedByScore ==
    search.pc = "done"
        => \A i \in 1 .. Len(search.result.items) - 1 :
               ItemScore(search.result.items[i], search.query)
                   >= ItemScore(search.result.items[i + 1], search.query)

C20_Witness ==
    /\ search.pc = "done"
    /\ Len(search.result.items) = 3
    /\ search.result.items[1] = search.items[3]
    /\ ItemScore(search.items[1], search.query) < ItemScore(search.items[3], search.query)

\* The place of item x in the sequence s (0 when it is not there).
PositionIn(s, x) ==
    IF \E k \in 1 .. Len(s) : s[k] = x THEN CHOOSE k \in 1 .. Len(s) : s[k] = x ELSE 0

\* C21: two matching items with equal scores appear in the result of Search
\* in the same relative order as in the input list.
C21_StableOnTies ==
    (search.pc = "done" /\ search.query # <<>>)
        => \A i, j \in 1 .. Len(search.items) :
               (/\ i < j
                /\ ItemScore(search.items[i], search.query) > 0
                /\ ItemScore(search.items[i], search.query)
                       = ItemScore(search.items[j], search.query))
                   => PositionIn(search.result.items, search.items[i])
                          < PositionIn(search.result.items, search.items[j])

\* The score of fuzzyMatch when the first matched query byte has no previous
\* match: the loop of fuzzyMatch started with a previous match position that
\* no text index follows.
ScoreWithoutPrevious(text, query) ==
    IF Len(query) = 0 THEN 1
    ELSE IF Len(text) = 0 THEN 0
    ELSE MatchLoop(text, query, 0, 0, 0, -2, 0)

\* C22: the consecutive-match bonus goes only to a match one past the
\* previous match, with a run length that counts the contiguous matches and
\* restarts at a gap; the first matched query character has no previous match
\* and gets no consecutive bonus, also at text index 0.
C22_ConsecutiveBonus ==
    (search.pc = "done" /\ search.query # <<>>)
        => \A i \in 1 .. Len(search.items) :
               ItemScore(search.items[i], search.query)
                   = ScoreWithoutPrevious(Bytes(ToLower(search.items[i].Item)),
                                          Bytes(ToLower(search.query)))

\* The text indexes (0-based) at which fuzzyMatch matches the bytes of query,
\* scanning from textIdx.
RECURSIVE MatchedAt(_, _, _)
MatchedAt(text, query, textIdx) ==
    IF query = <<>> THEN {}
    ELSE LET at == ScanFor(text, Head(query), textIdx) IN
         IF at = -1 THEN {} ELSE {at} \cup MatchedAt(text, Tail(query), at + 1)

\* The number of matched characters of the item that are upper case in its
\* original content and follow a lower-case character there.
CaseTransitions(item, query) ==
    LET orig == Bytes(item.Item)
        at == MatchedAt(Bytes(ToLower(item.Item)), Bytes(ToLower(query)), 0)
    IN  Cardinality({p \in at : p > 0 /\ isLower(orig[p]) /\ isUpper(orig[p + 1])})

\* The item with its content in lower case.
LowerCased(item) == [item EXCEPT !.Item = ToLower(item.Item)]

\* C23: in the score Search gives an item, each matched character that is
\* upper case in the original content and follows a lower-case character
\* there adds 10 over the score of the same content without the transition.
C23_CaseTransitionBonus ==
    (search.pc = "done" /\ search.query # <<>>)
        => \A i \in 1 .. Len(search.items) :
               ItemScore(search.items[i], search.query) > 0
                   => ItemScore(search.items[i], search.query)
                          = ItemScore(LowerCased(search.items[i]), search.query)
                                + 10 * CaseTransitions(search.items[i], search.query)

\* C24: a second call of Search on the same items, with the same query or
\* with a query that differs from it only in letter case, returns the same
\* sequence as the first call.
C24_CaseInsensitive == search.pc = "again" => search.reresult = search.result

C24_Witness ==
    /\ search.pc = "again"
    /\ search.query = <<"a">>
    /\ search.requery = <<"A">>
    /\ Len(search.items) = 3
    /\ Len(search.result.items) = 2
    /\ search.result.items[1].Item = <<"A">>
    /\ search.result.items[2].Item = <<"-", "a">>
    /\ search.reresult = search.result

\* ---------------------------------------------------- notions for the UI
\* Update has just handled key k.
Pressed(k) == ui'.last.msg = "key" /\ ui'.last.key = k

\* The item with its content as characters.
AsText(item) == [item EXCEPT !.Item = Chars(item.Item)]

\* s without the items of hash h.
WithoutHash(s, h) == SelectSeq(s, LAMBDA x : x.Hash # h)

\* C25: 'd' in table view with the cursor on a displayed item removes from
\* the store the item of that hash and nothing else (items, hash set and
\* table), whether or not a filter is active; when the durable delete fails
\* the store is left as it was.
C25_DeleteSelected ==
    [][(Pressed("d") /\ ui.mode = "TableView" /\ ui.cursor < Len(getDisplayItems(ui, Mgr)))
           => LET h == getDisplayItems(ui, Mgr)[ui.cursor + 1].Hash IN
              IF ui'.last.fail
              THEN UNCHANGED <<items, hashes, tbl>>
              ELSE /\ items' = WithoutHash(items, h)
                   /\ hashes' = hashes \ {h}
                   /\ tbl' = {r \in tbl : r.hash # h}]_vars

C25_Witness ==
    /\ ui.last.msg = "key"
    /\ ui.last.key = "d"
    /\ ~ui.last.fail
    /\ ~ui.filtered.nil
    /\ ui.last.index >= 0
    /\ ui.last.row # ui.last.index
    /\ Len(items) = 2
    /\ Len(ui.filtered.items) = 3
    /\ ui.filtered.items[ui.last.row + 1].Hash \notin hashes

\* The items of the store that a query matches.
Matching(query) ==
    {items[i] : i \in {j \in 1 .. Len(items) : ByteMatch(AsText(items[j]), query)}}

\* C26: '/' in table view enters search mode; Esc in search mode returns to
\* table view with an empty query and no filter, so that the whole history
\* is displayed; Enter in search mode returns to table view with the query
\* applied as the filter (the whole history for the empty query, the matching
\* items otherwise); the mode is always TableView or SearchView.
C26_SearchMode ==
    [][/\ (Pressed("/") /\ ui.mode = "TableView") => ui'.mode = "SearchView"
       /\ (Pressed("esc") /\ ui.mode = "SearchView")
              => /\ ui'.mode = "TableView"
                 /\ ui'.value = <<>>
                 /\ ui'.filtered = NilSlice
                 /\ getDisplayItems(ui', Mgr) = items
       /\ (Pressed("enter") /\ ui.mode = "SearchView")
              => /\ ui'.mode = "TableView"
                 /\ ui'.value = ui.value
                 /\ ui.value = <<>> => getDisplayItems(ui', Mgr) = items
                 /\ ui.value # <<>>
                        => /\ ~ui'.filtered.nil
                           /\ SeqToSet(getDisplayItems(ui', Mgr)) = Matching(ui.value)
                           /\ Len(ui'.filtered.items) = Cardinality(Matching(ui.value))
       /\ ui'.mode \in {"TableView", "SearchView"}]_vars

C26_Witness ==
    /\ ui.last.msg = "key"
    /\ ui.last.key = "enter"
    /\ ui.mode = "TableView"
    /\ ui.value = <<"-">>
    /\ Len(items) = 3
    /\ ~ui.filtered.nil
    /\ Len(ui.filtered.items) = 1
    /\ ui.filtered.items[1] = items[3]

\* C27: in search mode every key other than Enter and Esc goes to the text
\* input: the mode stays SearchView, the program does not quit, and a
\* printable character is appended to the query.
C27_SearchInput ==
    [][(ui'.last.msg = "key" /\ ui.mode = "SearchView"
           /\ ui'.last.key \notin {"enter", "esc"})
           => /\ ui'.mode = "SearchView"
              /\ ~ui'.quit
              /\ ui'.last.cmd # "Quit"
              /\ ui'.last.key \in Runes => ui'.value = Append(ui.value, ui'.last.key)]_vars

\* C28: Esc in table view while a filter is active clears the filter, so
\* that the whole history is displayed.
C28_EscClearsFilter ==
    [][(Pressed("esc") /\ ui.mode = "TableView" /\ ~ui.filtered.nil)
           => /\ ui'.filtered = NilSlice
              /\ getDisplayItems(ui', Mgr) = items]_vars

\* C29: Update with a TickMsg returns the command that schedules the next
\* tick, in either mode and whatever clipboard.ReadAll returned; when the
\* read failed or returned the empty content the store is left as it was.
C29_TickReschedules ==
    [][ui'.last.msg = "tick"
           => /\ ui'.last.cmd = "Tick"
              /\ ui'.last.read \in {"error", "empty"}
                     => UNCHANGED <<items, hashes, lastHash, tbl>>]_vars

C29_Witness ==
    /\ ui.last.msg = "tick"
    /\ ui.last.cmd = "Tick"
    /\ ui.last.read = "empty"
    /\ ui.mode = "SearchView"
    /\ ui.value = <<"a">>
    /\ Len(items) = 2

\* C30: a DeleteItem(i) that returns true removes the item that was at
\* position i: Count() drops by one, the items before i and those after it
\* keep their order and every field, and the hash of the removed item is no
\* longer in the hash set.
C30_DeleteFrame ==
    [][(lastCall'.op = "DeleteItem" /\ lastCall'.ret)
          => LET i == lastCall'.arg IN
             /\ i >= 0 /\ i < Len(items)
             /\ Len(items') = Len(items) - 1
             /\ \A k \in 1 .. Len(items') : items'[k] = items[IF k <= i THEN k ELSE k + 1]
             /\ items[i + 1].Hash \notin hashes'
             /\ hashes' = hashes \ {items[i + 1].Hash}]_vars

C30_Witness ==
    /\ lastCall.op = "DeleteItem"
    /\ lastCall.ret
    /\ lastCall.arg = 1
    /\ lastCall.n = 3
    /\ Len(items) = 2
    /\ items[1].Hash # items[2].Hash

\* C31: a LoadFromDB whose durable load fails returns the error and leaves
\* the item sequence, the hash set and the table as they were; a
\* LoadFromFile on a corrupted file does not succeed, and one that returns
\* an error leaves the item sequence and the hash set as they were.
C31_LoadFailure ==
    [][/\ (lastCall'.op = "LoadFromDB" /\ lastCall'.fail)
              => (~lastCall'.ret /\ MemUnchanged /\ UNCHANGED tbl)
       /\ (lastCall'.op = "LoadFromFile" /\ file.kind = "corrupt")
              => (lastCall'.fail /\ MemUnchanged)
       /\ (lastCall'.op = "LoadFromFile" /\ ~lastCall'.ret)
              => (file.kind = "corrupt" /\ MemUnchanged)]_vars

C31_Witness ==
    /\ lastCall.op = "LoadFromDB"
    /\ lastCall.fail
    /\ ~lastCall.ret
    /\ Len(items) >= 2
    /\ Cardinality(tbl) >= 2

\* The same in the JSON build: a load that failed on a corrupted file.
C31_WitnessJSON ==
    /\ lastCall.op = "LoadFromFile"
    /\ ~lastCall.ret
    /\ file.kind = "corrupt"
    /\ Len(items) >= 2

\* C32: the hash set holds exactly the hashes of the items, and containsHash
\* reports a hash exactly when a live item has it.
C32_HashIndex ==
    /\ hashes = {items[i].Hash : i \in 1 .. Len(items)}
    /\ \A c \in Contents : containsHash(Mgr, Hash(c)) <=> Live(Mgr, c)

\* C33: every item the UI displays is an item of the store, and under a
\* filter the number of displayed items is at most Count().
C33_DisplayedLive ==
    /\ \A k \in 1 .. Len(getDisplayItems(ui, Mgr)) :
           getDisplayItems(ui, Mgr)[k] \in SeqToSet(items)
    /\ ~ui.filtered.nil => Len(ui.filtered.items) <= Count(Mgr)

\* C34: Enter in search mode with a non-empty query that matches no item
\* leaves an empty displayed list and the view reports that nothing was
\* found; with the empty query it leaves no filter and the whole history
\* displayed.
C34_ApplyQuery ==
    [][(Pressed("enter") /\ ui.mode = "SearchView")
           => /\ (ui.value # <<>> /\ Matching(ui.value) = {})
                     => /\ getDisplayItems(ui', Mgr) = <<>>
                        /\ View(ui', Mgr) = "No results found for your search."
              /\ ui.value = <<>>
                     => /\ ui'.filtered = NilSlice
                        /\ getDisplayItems(ui', Mgr) = items
                        /\ View(ui', Mgr) \in {"table", "No clipboard history yet..."}]_vars

C34_Witness ==
    /\ ui.last.msg = "key"
    /\ ui.last.key = "enter"
    /\ ui.value = <<"d">>
    /\ Len(items) = 3
    /\ ui.filtered = [nil |-> FALSE, items |-> <<>>]
    /\ View(ui, Mgr) = "No results found for your search."

\* ------------------------------------------------ notions for the scorer
\* The sum of f over the finite set S of integers.
SumOver(S, f(_)) ==
    LET RECURSIVE Acc(_)
        Acc(T) == IF T = {} THEN 0
                  ELSE LET x == CHOOSE y \in T : TRUE IN f(x) + Acc(T \ {x})
    IN  Acc(S)

\* The six boundary characters.
BoundaryChars == {" ", "-", "_", ".", "/", "\\"}

\* Whether the matched byte at index p (0-based) of the bytes of text is at
\* index 0 or follows a boundary character.
AtBoundary(text, p) ==
    \/ p = 0
    \/ \E c \in BoundaryChars : <<Bytes(text)[p]>> = UTF8(c)

\* The score of a full match at the byte indexes at, apart from the
\* word-boundary bonus: position scores, consecutive-match bonuses as
\* fuzzyMatch counts runs, case-transition bonuses and the length bonus.
ScoreApart(text, at) ==
    LET n == Len(text)
        RECURSIVE RunAt(_)
        RunAt(p) == IF p = 0 THEN 1 ELSE IF p - 1 \in at THEN RunAt(p - 1) + 1 ELSE 0
        Position(p) == n - p
        Consecutive(p) == 10 * RunAt(p)
        Transition(p) == IF p > 0 /\ isLower(text[p]) /\ isUpper(text[p + 1]) THEN 10 ELSE 0
    IN  SumOver(at, Position) + SumOver(at, Consecutive) + SumOver(at, Transition)
            + (IF n < 50 THEN (50 - n) * 2 ELSE 0)

\* C35: a matched character adds 15 to the score exactly when it is at text
\* index 0 or the character before it is a space, '-', '_', '.', '/' or a
\* backslash: the score of a match is its score apart from this bonus plus
\* 15 for each such matched character.
C35_BoundaryBonus ==
    (search.pc = "scored" /\ search.query # <<>>)
        => LET text == Bytes(search.text)
               at == MatchedAt(text, Bytes(search.query), 0)
           IN  IF Cardinality(at) < Len(search.query) THEN search.score = 0
               ELSE search.score
                        = ScoreApart(text, at)
                              + 15 * Cardinality({p \in at : AtBoundary(search.text, p)})

C35_Witness ==
    /\ search.pc = "scored"
    /\ search.text = <<"\\", "a">>
    /\ search.query = <<"a">>
    /\ search.score = 1 + 15 + 96

\* C36: fuzzyMatch returns for every text and query; it never reads a text
\* index outside the text; what it returns is a non-negative integer, the
\* one the scorer is defined to give: 1 for the empty query and 0 for the
\* empty text with a non-empty query.
C36_Defined ==
    /\ [](/\ search.pc # "panic"
          /\ search.reads \subseteq 0 .. Len(search.text) - 1
          /\ search.pc = "return"
                 => /\ search.score \in Nat
                    /\ search.score = fuzzyMatch(search.text, search.query)
                    /\ search.query = <<>> => search.score = 1
                    /\ (search.text = <<>> /\ search.query # <<>>) => search.score = 0)
    /\ <>(search.pc = "return")

\* A query longer than the text, whose first byte matches at index 0.
C36_Witness ==
    /\ search.pc = "return"
    /\ search.text = <<97>>
    /\ search.query = <<97, 97>>
    /\ search.reads = {0}
    /\ search.score = 0

\* Both call sites have returned from an AddItem of the same content, the
\* two calls had both passed containsHash before either had inserted, and
\* neither insert failed for a reason other than the primary key.
BothAddedSame ==
    /\ \A t \in Threads :
           /\ procs[t].call.pc = "idle"
           /\ procs[t].rec.op = "AddItem"
           /\ procs[t].rec.returned
           /\ procs[t].rec.raced
           /\ ~procs[t].rec.fail
    /\ procs["poller"].rec.arg = procs["ui"].rec.arg

\* C37: when two AddItem calls for the same new content have both passed
\* the duplicate check before either inserted, exactly one of them returns
\* true, and afterwards the table holds exactly one row and the items
\* exactly one item for that content.
C37_OneInsertWins ==
    BothAddedSame
        => LET h == Hash(procs["poller"].rec.arg) IN
           /\ Cardinality({t \in Threads : procs[t].rec.ret}) = 1
           /\ Cardinality({r \in tbl : r.hash = h}) = 1
           /\ Cardinality({i \in 1 .. Len(items) : items[i].Hash = h}) = 1

C37_Witness ==
    /\ BothAddedSame
    /\ procs["poller"].rec.arg = "a"
    /\ procs["ui"].rec.ret
    /\ ~procs["poller"].rec.ret
    /\ Len(items) = 2

====
